---- MODULE Spec2Model ----
(***************************************************************************)
(* Model of the "Do You Love Me?" mini-game of valentine-wish              *)
(* (love-game module: evasive No button, one-shot celebration) together    *)
(* with the part of the DOM the module reads and writes.                   *)
(*                                                                         *)
(* Numbers.  Math.random() is a draw r = k / RandDen, k in 0..RandDen-1    *)
(* (so 0 <= r < 1).  Coordinates are kept multiplied by RandDen, so that   *)
(* r * safeMax is the integer k * safeMax; a pixel length p is compared    *)
(* against a coordinate as p * RandDen.  Scales are kept in tenths         *)
(* (1.0 = 10, 0.3 = 3); rounding of binary floating point is not modelled. *)
(***************************************************************************)
EXTENDS Integers, Sequences, FiniteSets, TLC

\* ---------------------------------------------------------------- bounds
RandDen == 2
MaxEvasions == 20
MaxRenders == 2
MaxDraws == 12
MaxCount == 25
MaxThreshold == 6
MaxHeroInits == 2
MaxCreates == 3

\* ------------------------------------------------------ program constants
shrinkThreshold == 5
minButtonScale == 3
ShrinkStep == 1
maxAttempts == 10
minSeparation == 50
heartCount == 20
NumMessages == 16
ScaleOne == 10

Abs(n) == IF n < 0 THEN -n ELSE n
Max(a, b) == IF a > b THEN a ELSE b

\* ------------------------------------------------------------- DOM inputs
\* What getBoundingClientRect() reports for the container (cw x ch) and the
\* No button (bw x bh), in pixels.
Rect(cw, ch, bw, bh) == [cw |-> cw, ch |-> ch, bw |-> bw, bh |-> bh]
Rects ==
  { Rect(500, 400, 80, 40),
    Rect(100, 50, 200, 200),
    Rect(100, 300, 200, 200),
    Rect(300, 50, 200, 200),
    Rect(80, 40, 80, 40),
    Rect(0, 0, 0, 0) }
GameRects == { Rect(500, 400, 80, 40), Rect(100, 50, 200, 200) }

Pos(x, y) == [x |-> x, y |-> y]
\* Current positions handed to calculateEvasionPosition (scaled by RandDen);
\* some lie outside every container.
CurrentPositions ==
  { Pos(0, 0),
    Pos(210 * RandDen, 180 * RandDen),
    Pos(100 * RandDen, 100 * RandDen),
    Pos(-30 * RandDen, 1000 * RandDen),
    Pos(40 * RandDen, 0) }

Randoms == 0 .. (RandDen - 1)

\* ------------------------------------------------- calculateEvasionPosition
AvailableSpaceNoButton(containerSize, buttonSize) == containerSize

AvailableSpace(containerSize, buttonSize) == containerSize - buttonSize

SafeMaxNoClamp(space) == space

SafeMax(space) == Max(0, space)

\* newX = Math.random() * safeMaxX, with Math.random() = k / RandDen
DrawCoordinate(k, safeMax) == k * safeMax

TooClose(candidate, currentPosition) ==
  /\ Abs(candidate.x - currentPosition.x) < minSeparation * RandDen
  /\ Abs(candidate.y - currentPosition.y) < minSeparation * RandDen

LoopContinuesUnbounded(nAttempts, candidate, currentPosition) ==
  TooClose(candidate, currentPosition)

\* the while-condition of the do/while loop
LoopContinues(nAttempts, candidate, currentPosition) ==
  /\ nAttempts < maxAttempts
  /\ TooClose(candidate, currentPosition)

Candidates(rect) ==
  LET safeMaxX == SafeMax(AvailableSpace(rect.cw, rect.bw))
      safeMaxY == SafeMax(AvailableSpace(rect.ch, rect.bh))
  IN  { Pos(DrawCoordinate(kx, safeMaxX), DrawCoordinate(ky, safeMaxY)) :
          kx \in Randoms, ky \in Randoms }

\* Every value the do/while loop can return when it is entered with
\* `nAttempts` draws already made.
RECURSIVE EvasionLoop(_, _, _)
EvasionLoop(rect, currentPosition, nAttempts) ==
  LET drawn == Candidates(rect)
      again == { c \in drawn : LoopContinues(nAttempts + 1, c, currentPosition) }
  IN  (drawn \ again) \cup
      (IF again = {} THEN {} ELSE EvasionLoop(rect, currentPosition, nAttempts + 1))

calculateEvasionPosition(rect, currentPosition) ==
  EvasionLoop(rect, currentPosition, 0)


\* --------------------------------------------------- calculateShrinkScale
calculateShrinkScaleNoFloor(evasionCount, threshold, minScale) ==
  IF evasionCount < threshold
  THEN ScaleOne
  ELSE ScaleOne - (evasionCount - threshold) * ShrinkStep

calculateShrinkScale(evasionCount, threshold, minScale) ==
  IF evasionCount < threshold
  THEN ScaleOne
  ELSE LET evasionsPastThreshold == evasionCount - threshold
           shrinkAmount == evasionsPastThreshold * ShrinkStep
           newScale == ScaleOne - shrinkAmount
       IN  Max(minScale, newScale)

\* ------------------------------------------------------------------ state
VARIABLES
  state,            \* the LoveGameState record
  dom,              \* what the module reads and writes in the page
  document,         \* the ids document.querySelector can find
  refs,             \* createLoveGame's element variables: TRUE = non-null
  listeners,        \* the event types with a handler attached
  cleanupFunctions, \* createLoveGame's list of cleanup closures
  isInitialized,
  op,               \* history: the last operation
  called,           \* history: the engine function that operation ran
  pre,              \* history: state, dom and counters before that operation
  renders,          \* history: celebrations rendered since the last teardown
  callbacks,        \* history: onCelebration invocations since then
  pcPos, posIn, attempts, candidate,  \* one calculateEvasionPosition call
  scaleIn, scaleOut,  \* one calculateShrinkScale call: arguments, result
  cleaned,          \* history: the buttons whose cleanup closure has run
  navState,         \* Navigation.state: isMenuOpen, activeSection
  navDom,           \* the menu, toggle, body and link attributes it writes
  navArg,           \* the id the last public method was called with
  navCached,        \* cacheElements has filled menu, toggle, links, sections
  navListeners,     \* the listeners of bindEvents still attached
  win,              \* window.scrollY and window.innerWidth
  inThrottle,       \* the flag inside the throttled scroll handler
  resizeTimeout,    \* the debounced resize handler has a timer pending
  navInitialized,   \* history: init() has been called
  navDestroyed,     \* history: destroy() has been called
  navOp, navPre,    \* history: the last operation, state and dom before it
  heroState,        \* createHero's state: isAnimated, isVisible
  heroDoc,          \* the hero elements the document holds
  heroRefs,         \* createHero's scrollIndicator and scrollClickHandler
  heroListeners,    \* the listeners attached to the scroll indicator
  heroDom,          \* the animation classes and the role set by init
  heroInits,        \* history: init() calls made
  heroDestroyed,    \* history: destroy() was called after the last init()
  heroOp,           \* history: the last operation
  heroScrolled,     \* history: scrollIntoView calls made by that operation
  hearts,           \* animations.ts: the .floating-heart elements of each
                    \* container, activeHearts, the motion-preference listener
  motionReduced,    \* the prefers-reduced-motion media query matches
  heartsOp,         \* history: the last operation
  heartsRet,        \* history: length of the array the last create returned
  heartsCreates,    \* history: createFloatingHearts calls made
  firstCreate,      \* history: container and count of the first of them
  heartsCleaned,    \* history: cleanupFloatingHearts has run
  gallery,          \* createGallery's closure: photos, state.revealedPhotos,
                    \* cardElements (with their class and aria-pressed),
                    \* listeners, container, isInitialized
  galDoc,           \* the document holds the gallery container
  galOp,            \* history: the last operation
  galInitial,       \* history: the photos configured as revealed
  galActivated,     \* history: the cards activated by click, Enter or Space
  mqlSupported,     \* window.matchMedia exists
  mqlMatches,       \* the media query list's matches: the current preference
  rootClass,        \* document.documentElement carries 'reduced-motion'
  rootClassPre,     \* history: rootClass before the last operation
  motionSubs,       \* the initMotionPreference calls whose handler is attached
  motionInits,      \* initMotionPreference calls made
  motionCleaned,    \* history: a returned cleanup function has run
  motionOp,         \* history: the last operation
  srVisible,        \* the elements carrying scroll-reveal-visible
  srBase,           \* the elements carrying scroll-reveal
  srObservers,      \* the IntersectionObservers created, in creation order:
                    \* once, the elements still observed, and as history the
                    \* elements passed, those reported intersecting since
                    \* (seen), and those that were visible when passed or
                    \* were shown since by a call under reduced motion (given)
  activeObservers,  \* the module's activeObservers array (indices of srObservers)
  srReturned,       \* history: observers returned since the last cleanup
  srOp,             \* history: the last operation
  reasons,          \* createReasons' state: isInitialized, isRendered,
                    \* hoveredCardId, expandedCardId
  reasonCards,      \* the rendered card elements: per card id the hover
                    \* class, the expanded class with aria-expanded, and the
                    \* isExpanded flag of the card's handlers
  reasonListeners,  \* the cards whose handlers are attached
  reasonsDoc,       \* the document holds the reasons container
  reasonsOp,        \* history: the last operation
  secLayout,        \* a page: the cached sections' offsetTop and offsetHeight,
                    \* window.innerHeight and the document's scrollHeight
  secY,             \* window.scrollY at the last updateActiveSection call
  secActive,        \* state.activeSection
  secOp,            \* history: the last operation
  held,             \* the record a getState() call returned to the caller
  heldTaken,        \* the caller has called getState()
  heldShared        \* held.noButtonPosition is the object the game's state
                    \* refers to

gameVars == <<state, dom, document, refs, listeners, cleanupFunctions,
              isInitialized, op, called, pre, renders, callbacks>>
posVars == <<pcPos, posIn, attempts, candidate>>
scaleVars == <<scaleIn, scaleOut>>
navVars == <<navState, navDom, navArg, navCached, navListeners, win, inThrottle,
             resizeTimeout, navInitialized, navDestroyed, navOp, navPre>>
heroVars == <<heroState, heroDoc, heroRefs, heroListeners, heroDom, heroInits,
              heroDestroyed, heroOp, heroScrolled>>
heartVars == <<hearts, motionReduced, heartsOp, heartsRet, heartsCreates,
               firstCreate, heartsCleaned>>
galVars == <<gallery, galDoc, galOp, galInitial, galActivated>>
motionVars == <<mqlSupported, mqlMatches, rootClass, rootClassPre, motionSubs,
                motionInits, motionCleaned, motionOp>>
revealVars == <<srVisible, srBase, srObservers, activeObservers, srReturned, srOp>>
reasonsVars == <<reasons, reasonCards, reasonListeners, reasonsDoc, reasonsOp>>
sectionVars == <<secLayout, secY, secActive, secOp>>
copyVars == <<held, heldTaken, heldShared>>
extVars == <<scaleVars, cleaned, navVars, heroVars, heartVars, galVars, motionVars, revealVars, reasonsVars, sectionVars>>
vars == <<state, dom, document, refs, listeners, cleanupFunctions,
          isInitialized, op, called, pre, renders, callbacks,
          pcPos, posIn, attempts, candidate, extVars, copyVars>>

Elems == {"container", "yesButton", "noButton", "celebrationContainer"}
DocumentOptions == { Elems, Elems \ {"celebrationContainer"}, {} }
NoEvents == {"mouseenter", "touchstart"}
YesEvents == {"click", "touchend", "keydown"}
Keys == {"Enter", " ", "a"}
\* createHeartParticles places the hearts at random: two of its outcomes
HeartSeeds == {0, 1}

createInitialState ==
  [ noButtonPosition |-> Pos(0, 0),
    hasAnsweredYes |-> FALSE,
    evasionCount |-> 0,
    noButtonScale |-> ScaleOne,
    currentMessageIndex |-> 0 ]

NoInlineStyle == [positioned |-> FALSE, left |-> 0, top |-> 0, scale |-> ScaleOne]
EmptyCelebration == [hidden |-> TRUE, active |-> FALSE, hearts |-> 0,
                     seed |-> 0, message |-> FALSE]
\* the page as served: "No" label, no inline style, no pleading message
\* element (-1), celebration hidden and empty, question and buttons shown
InitialDom ==
  [ noButtonText |-> "No",
    noButtonStyle |-> NoInlineStyle,
    pleadingMessage |-> -1,
    celebration |-> EmptyCelebration,
    gameHidden |-> FALSE ]

\* no getState() call yet
CopyIdle ==
  /\ held = createInitialState
  /\ heldTaken = FALSE
  /\ heldShared = FALSE

\* what an operation of the game leaves of the caller's record: the record
\* itself, and its position object still being the state's unless the
\* operation assigned state.noButtonPosition (evadeNoButton, destroy)
CopyFollows ==
  /\ UNCHANGED <<held, heldTaken>>
  /\ heldShared' = (heldShared /\ state'.evasionCount = state.evasionCount
                               /\ op' # "destroy")

\* The result of running a piece of the module: the new state and dom, the
\* engine function that ran, and whether onCelebration was invoked.
Outcome(st, d, fn, notified) ==
  [state |-> st, dom |-> d, called |-> fn, notified |-> notified]
Same == Outcome(state, dom, "none", FALSE)

InitialSnapshot == [state |-> createInitialState, dom |-> InitialDom, renders |-> 0,
                    callbacks |-> 0]

\* ------------------------------------------------------- the engine functions
showPleadingMessageNoAdvance(st, d) ==
  [state |-> st,
   dom |-> [d EXCEPT !.pleadingMessage = st.currentMessageIndex % NumMessages]]

showPleadingMessageNextIndex(st, d) ==
  [state |-> [st EXCEPT !.currentMessageIndex = @ + 1],
   dom |-> [d EXCEPT !.pleadingMessage = (st.currentMessageIndex + 1) % NumMessages]]

showPleadingMessage(st, d) ==
  [state |-> [st EXCEPT !.currentMessageIndex = @ + 1],
   dom |-> [d EXCEPT !.pleadingMessage = st.currentMessageIndex % NumMessages]]

Evaded(r) == Outcome(r.state, r.dom, "evadeNoButton", FALSE)

evadeNoButtonStaleScale(st, d, newPosition) ==
  IF st.hasAnsweredYes
  THEN Outcome(st, d, "evadeNoButton", FALSE)
  ELSE LET scale == calculateShrinkScale(st.evasionCount, shrinkThreshold, minButtonScale)
           st1 == [st EXCEPT !.noButtonPosition = newPosition,
                             !.evasionCount = @ + 1,
                             !.noButtonScale = scale]
           d1 == [d EXCEPT !.noButtonText = IF st1.evasionCount = 1 THEN "Hmm..." ELSE @,
                           !.noButtonStyle = [positioned |-> TRUE, left |-> newPosition.x,
                                              top |-> newPosition.y, scale |-> scale]]
       IN  Evaded(showPleadingMessage(st1, d1))

evadeNoButtonUnguarded(st, d, newPosition) ==
  LET st1 == [st EXCEPT !.noButtonPosition = newPosition, !.evasionCount = @ + 1]
      scale == calculateShrinkScale(st1.evasionCount, shrinkThreshold, minButtonScale)
      st2 == [st1 EXCEPT !.noButtonScale = scale]
      d1 == [d EXCEPT !.noButtonText = IF st1.evasionCount = 1 THEN "Hmm..." ELSE @,
                      !.noButtonStyle = [positioned |-> TRUE, left |-> newPosition.x,
                                         top |-> newPosition.y, scale |-> scale]]
  IN  Evaded(showPleadingMessage(st2, d1))

evadeNoButton(st, d, newPosition) ==
  IF st.hasAnsweredYes
  THEN Outcome(st, d, "evadeNoButton", FALSE)
  ELSE LET st1 == [st EXCEPT !.noButtonPosition = newPosition, !.evasionCount = @ + 1]
           scale == calculateShrinkScale(st1.evasionCount, shrinkThreshold, minButtonScale)
           st2 == [st1 EXCEPT !.noButtonScale = scale]
           d1 == [d EXCEPT !.noButtonText = IF st1.evasionCount = 1 THEN "Hmm..." ELSE @,
                           !.noButtonStyle = [positioned |-> TRUE, left |-> newPosition.x,
                                              top |-> newPosition.y, scale |-> scale]]
       IN  Evaded(showPleadingMessage(st2, d1))

triggerCelebrationResetsButton(st, d, reducedMotion, seed) ==
  Outcome([st EXCEPT !.hasAnsweredYes = TRUE, !.noButtonScale = ScaleOne,
                     !.noButtonPosition = Pos(0, 0)],
          [d EXCEPT !.celebration =
             [hidden |-> FALSE, active |-> TRUE,
              hearts |-> IF reducedMotion THEN 0 ELSE heartCount,
              seed |-> IF reducedMotion THEN 0 ELSE seed,
              message |-> TRUE]],
          "triggerCelebration", FALSE)

triggerCelebrationToggles(st, d, reducedMotion, seed) ==
  Outcome([st EXCEPT !.hasAnsweredYes = ~@],
          [d EXCEPT !.celebration =
             [hidden |-> FALSE, active |-> TRUE,
              hearts |-> IF reducedMotion THEN 0 ELSE heartCount,
              seed |-> IF reducedMotion THEN 0 ELSE seed,
              message |-> TRUE]],
          "triggerCelebration", FALSE)

triggerCelebration(st, d, reducedMotion, seed) ==
  Outcome([st EXCEPT !.hasAnsweredYes = TRUE],
          [d EXCEPT !.celebration =
             [hidden |-> FALSE, active |-> TRUE,
              hearts |-> IF reducedMotion THEN 0 ELSE heartCount,
              seed |-> IF reducedMotion THEN 0 ELSE seed,
              message |-> TRUE]],
          "triggerCelebration", FALSE)

hideGameElements(d) == [d EXCEPT !.gameHidden = TRUE]


\* ------------------------------------------------------------ the handlers
\* handleEvasion, and handleTouchStart after preventDefault()
handleEvasion(newPosition) == evadeNoButton(state, dom, newPosition)

\* the onCelebration callback createLoveGame.init passes
onCelebration(d) == IF refs.container THEN hideGameElements(d) ELSE d

handleYesClickUnguarded(reducedMotion, seed) ==
  LET r == triggerCelebration(state, dom, reducedMotion, seed)
  IN  Outcome(r.state, onCelebration(r.dom), r.called, TRUE)

handleYesClickToggle(reducedMotion, seed) ==
  IF ~state.hasAnsweredYes
  THEN LET r == triggerCelebration(state, dom, reducedMotion, seed)
       IN  Outcome(r.state, onCelebration(r.dom), r.called, TRUE)
  ELSE Outcome([state EXCEPT !.hasAnsweredYes = FALSE], dom, "none", FALSE)

handleYesClick(reducedMotion, seed) ==
  IF ~state.hasAnsweredYes
  THEN LET r == triggerCelebration(state, dom, reducedMotion, seed)
       IN  Outcome(r.state, onCelebration(r.dom), r.called, TRUE)
  ELSE Same

handleKeyDown(key, reducedMotion, seed) ==
  IF key = "Enter" \/ key = " "
  THEN handleYesClick(reducedMotion, seed)
  ELSE Same

triggerCelebrationManual(reducedMotion, seed) ==
  IF refs.celebrationContainer /\ ~state.hasAnsweredYes
  THEN LET r == triggerCelebration(state, dom, reducedMotion, seed)
       IN  Outcome(r.state,
                   IF refs.container THEN hideGameElements(r.dom) ELSE r.dom,
                   r.called, FALSE)
  ELSE Same

evadeNoButtonManual(newPosition) ==
  IF refs.noButton /\ refs.container /\ ~state.hasAnsweredYes
  THEN evadeNoButton(state, dom, newPosition)
  ELSE Same

\* ---------------------------------------------------------------- actions
Snapshot == [state |-> state, dom |-> dom, renders |-> renders, callbacks |-> callbacks]

\* One operation ran with outcome r: the state and dom it leaves, and the
\* history of it.
Step(name, r) ==
  /\ state' = r.state
  /\ dom' = r.dom
  /\ op' = name
  /\ called' = r.called
  /\ pre' = Snapshot
  /\ renders' = renders + (IF r.called = "triggerCelebration" THEN 1 ELSE 0)
  /\ callbacks' = callbacks + (IF r.notified THEN 1 ELSE 0)

\* an event on the No button: runs the handler if one is attached
NoButtonEvent(type) ==
  /\ state.evasionCount < MaxEvasions
  /\ \E rect \in GameRects :
       \E newPosition \in calculateEvasionPosition(rect, state.noButtonPosition) :
         Step(type, IF type \in listeners THEN handleEvasion(newPosition) ELSE Same)
  /\ UNCHANGED <<document, refs, listeners, cleanupFunctions, isInitialized, posVars, extVars>>
  /\ CopyFollows

NoMouseEnter == NoButtonEvent("mouseenter")
NoTouchStart == NoButtonEvent("touchstart")

YesButtonEvent(type) ==
  /\ \E reducedMotion \in BOOLEAN, seed \in HeartSeeds :
       Step(type, IF type \in listeners THEN handleYesClick(reducedMotion, seed) ELSE Same)
  /\ UNCHANGED <<document, refs, listeners, cleanupFunctions, isInitialized, posVars, extVars>>
  /\ CopyFollows

YesClick == YesButtonEvent("click")
YesTouchEnd == YesButtonEvent("touchend")

KeyName(key) == IF key = "Enter" THEN "keydownEnter"
                ELSE IF key = " " THEN "keydownSpace" ELSE "keydownOther"

YesKeyDown ==
  /\ \E key \in Keys, reducedMotion \in BOOLEAN, seed \in HeartSeeds :
       Step(KeyName(key),
            IF "keydown" \in listeners
            THEN handleKeyDown(key, reducedMotion, seed) ELSE Same)
  /\ UNCHANGED <<document, refs, listeners, cleanupFunctions, isInitialized, posVars, extVars>>
  /\ CopyFollows

\* game.evadeNoButton()
GameEvadeNoButton ==
  /\ state.evasionCount < MaxEvasions
  /\ \E rect \in GameRects :
       \E newPosition \in calculateEvasionPosition(rect, state.noButtonPosition) :
         Step("game.evadeNoButton", evadeNoButtonManual(newPosition))
  /\ UNCHANGED <<document, refs, listeners, cleanupFunctions, isInitialized, posVars, extVars>>
  /\ CopyFollows

\* game.triggerCelebration()
GameTriggerCelebration ==
  /\ \E reducedMotion \in BOOLEAN, seed \in HeartSeeds :
       Step("game.triggerCelebration", triggerCelebrationManual(reducedMotion, seed))
  /\ UNCHANGED <<document, refs, listeners, cleanupFunctions, isInitialized, posVars, extVars>>
  /\ CopyFollows

\* game.init()
GameInit ==
  /\ Step("init", Same)
  /\ IF isInitialized
     THEN UNCHANGED <<refs, listeners, cleanupFunctions, isInitialized>>
     ELSE /\ refs' = [e \in Elems |-> e \in document]
          /\ IF \E e \in Elems : e \notin document
             THEN UNCHANGED <<listeners, cleanupFunctions, isInitialized>>
             ELSE /\ listeners' = listeners \cup NoEvents \cup YesEvents
                  /\ cleanupFunctions' = cleanupFunctions \o <<NoEvents, YesEvents>>
                  /\ isInitialized' = TRUE
  /\ UNCHANGED <<document, posVars, extVars>>
  /\ CopyFollows

\* game.destroy()
destroyDom(d) ==
  [d EXCEPT
     !.noButtonStyle = IF refs.noButton THEN NoInlineStyle ELSE @,
     !.celebration = IF refs.celebrationContainer THEN EmptyCelebration ELSE @,
     !.gameHidden = IF refs.container THEN FALSE ELSE @]

destroyStateKeepsCount(st) ==
  [st EXCEPT !.noButtonPosition = Pos(0, 0),
             !.hasAnsweredYes = FALSE,
             !.noButtonScale = ScaleOne,
             !.currentMessageIndex = 0]

\* the "Reset state" assignments at the end of destroy()
destroyState(st) ==
  [st EXCEPT !.noButtonPosition = Pos(0, 0),
             !.hasAnsweredYes = FALSE,
             !.evasionCount = 0,
             !.noButtonScale = ScaleOne,
             !.currentMessageIndex = 0]

GameDestroy ==
  /\ listeners' = listeners \ UNION { cleanupFunctions[i] : i \in DOMAIN cleanupFunctions }
  /\ cleanupFunctions' = <<>>
  /\ state' = destroyState(state)
  /\ dom' = destroyDom(dom)
  /\ isInitialized' = FALSE
  /\ op' = "destroy"
  /\ called' = "none"
  /\ pre' = Snapshot
  /\ renders' = 0
  /\ callbacks' = 0
  /\ UNCHANGED <<document, refs, posVars, extVars>>
  /\ CopyFollows

\* ------------------------------------------------- the caller's state copy
\* coordinates the caller writes into the record it was given
MaxHeldEvasions == 2
CallerCoordinates == {7}
Axes == {"x", "y"}

\* a write to record.noButtonPosition[axis]
writePosition(st, axis, v) ==
  IF axis = "x" THEN [st EXCEPT !.noButtonPosition.x = v]
  ELSE [st EXCEPT !.noButtonPosition.y = v]

\* the game's state after the caller wrote to the position object of its
\* record: { ...state } copies the reference, so while the record's position
\* is the state's own object the write lands in the state
writeThrough(st, shared, axis, v) ==
  IF shared THEN writePosition(st, axis, v) ELSE st

\* game.getState(): { ...state }
GameGetState ==
  /\ Step("getState", Same)
  /\ held' = state
  /\ heldTaken' = TRUE
  /\ heldShared' = TRUE
  /\ UNCHANGED <<document, refs, listeners, cleanupFunctions, isInitialized, posVars, extVars>>

\* the caller assigns record.noButtonPosition.x or .y
CallerWritesPosition ==
  /\ heldTaken
  /\ \E axis \in Axes, v \in CallerCoordinates :
       /\ held' = writePosition(held, axis, v)
       /\ Step("write position",
               Outcome(writeThrough(state, heldShared, axis, v), dom, "none", FALSE))
  /\ UNCHANGED <<heldTaken, heldShared>>
  /\ UNCHANGED <<document, refs, listeners, cleanupFunctions, isInitialized, posVars, extVars>>

\* the caller assigns a field of the record itself
CallerWritesField ==
  /\ heldTaken
  /\ \/ /\ held' = [held EXCEPT !.hasAnsweredYes = ~@]
        /\ UNCHANGED heldShared
     \/ /\ held' = [held EXCEPT !.noButtonPosition = Pos(0, 0)]
        /\ heldShared' = FALSE
  /\ Step("write field", Same)
  /\ UNCHANGED heldTaken
  /\ UNCHANGED <<document, refs, listeners, cleanupFunctions, isInitialized, posVars, extVars>>

\* game.evadeNoButton() while the caller holds a record, a few times
EvadeWhileHeld ==
  /\ state.evasionCount < MaxHeldEvasions
  /\ GameEvadeNoButton

NextGetState ==
  \/ GameInit
  \/ EvadeWhileHeld
  \/ GameDestroy
  \/ GameGetState
  \/ CallerWritesPosition
  \/ CallerWritesField

\* ---------------------------------------------- a createLoveGame instance
PosIdle ==
  /\ pcPos = "idle"
  /\ posIn = [rect |-> Rect(0, 0, 0, 0), currentPosition |-> Pos(0, 0)]
  /\ attempts = 0
  /\ candidate = Pos(0, 0)

\* no calculateShrinkScale call under way
ScaleIdle ==
  /\ scaleIn = [evasionCount |-> 0, threshold |-> shrinkThreshold,
                minScale |-> minButtonScale]
  /\ scaleOut = -1

CleanIdle == cleaned = {}

\* ------------------------------------------------------------- Navigation
scrollOffset == 80
mobileBreakpoint == 768
ActiveMargin == 100
BottomMargin == 50

SectionIds == <<"hero", "reasons", "gallery", "game">>
\* offsetTop and offsetHeight of the sections of the page, in document order
Sections ==
  << [id |-> "hero", top |-> 0, height |-> 600],
     [id |-> "reasons", top |-> 600, height |-> 600],
     [id |-> "gallery", top |-> 1200, height |-> 600],
     [id |-> "game", top |-> 1800, height |-> 600] >>
Page == [innerHeight |-> 700, scrollHeight |-> 2400]
ScrollPositions == {0, 520, 1120, 1650, 1700}
Widths == {500, 1024}
NavKeys == {"Escape", "a"}
\* the href targets of the .nav-link anchors
NavLinkTargets == {"hero", "reasons", "gallery", "game"}
\* the ids carried by elements of the page: the four sections, the navigation
\* bar and its menu
PageElementIds == NavLinkTargets \cup {"main-nav", "nav-menu"}
\* ids passed to the public methods; "nowhere" is carried by no element
CallIds == PageElementIds \cup {"nowhere"}
BoundEvents == {"toggleClick", "linkClick", "scroll", "resize", "docClick", "docKeydown"}

\* new Navigation(): the constructor's state, the page as served
NavConstructed ==
  /\ navState = [isMenuOpen |-> FALSE, activeSection |-> "hero"]
  /\ navDom = [menuOpen |-> FALSE, ariaExpanded |-> FALSE, toggleActive |-> FALSE,
               bodyOverflowHidden |-> FALSE, activeLinks |-> {}]
  /\ navCached = FALSE
  /\ navListeners = {}
  /\ inThrottle = FALSE
  /\ resizeTimeout = FALSE
  /\ navInitialized = FALSE
  /\ navDestroyed = FALSE
  /\ navOp = "new"
  /\ navArg = ""
  /\ navPre = [state |-> navState, dom |-> navDom]

NavIdle ==
  /\ NavConstructed
  /\ win = [scrollY |-> 0, innerWidth |-> 1024]

\* ------------------------------------------------------------------- hero
\* createHero(): nothing found, nothing attached
HeroCreated ==
  /\ heroState = [isAnimated |-> FALSE, isVisible |-> TRUE]
  /\ heroRefs = [scrollIndicator |-> FALSE, scrollClickHandler |-> FALSE]
  /\ heroListeners = [click |-> 0, latestClick |-> FALSE, keydown |-> 0]
  /\ heroDom = [classes |-> {}, indicatorButton |-> FALSE]
  /\ heroInits = 0
  /\ heroDestroyed = FALSE
  /\ heroOp = "createHero"
  /\ heroScrolled = 0

FullHeroDoc == [hero |-> TRUE, scrollIndicator |-> TRUE, nextSection |-> TRUE]

HeroIdle ==
  /\ HeroCreated
  /\ heroDoc = FullHeroDoc

\* --------------------------------------------------------- floating hearts
Containers == {"floating-hearts", "second-container"}
HeartCounts == {2, 3}

NoClosure == [registered |-> FALSE, container |-> "floating-hearts", count |-> 0]

\* animations.ts as loaded: no hearts, no listener
HeartsLoaded ==
  /\ hearts = [inDom |-> [c \in Containers |-> 0], activeHearts |-> 0,
               motionPreferenceCleanup |-> NoClosure]
  /\ heartsOp = "load"
  /\ heartsRet = -1
  /\ heartsCreates = 0
  /\ firstCreate = NoClosure
  /\ heartsCleaned = FALSE

HeartsIdle ==
  /\ HeartsLoaded
  /\ motionReduced = FALSE

\* ---------------------------------------------------------------- gallery
PhotoIds == {"1", "2", "3"}

\* createGallery({photos}) with the photos in `initial` configured revealed
GalleryCreated(initial) ==
  /\ gallery = [ photos |-> [id \in PhotoIds |-> id \in initial],
                 revealedPhotos |-> {},
                 cardElements |-> {},
                 revealedClass |-> {},
                 ariaPressed |-> {},
                 listeners |-> {},
                 container |-> FALSE,
                 isInitialized |-> FALSE ]
  /\ galOp = "createGallery"
  /\ galInitial = initial
  /\ galActivated = {}

GalleryIdle ==
  /\ GalleryCreated({})
  /\ galDoc = TRUE

\* ------------------------------------------------------ motion preference
MaxMotionInits == 4

\* the page as loaded: no class on the root element, nothing subscribed
MotionLoaded ==
  /\ rootClass = FALSE
  /\ rootClassPre = FALSE
  /\ motionSubs = {}
  /\ motionInits = 0
  /\ motionCleaned = FALSE
  /\ motionOp = "load"

MotionIdle ==
  /\ MotionLoaded
  /\ mqlSupported = TRUE
  /\ mqlMatches = FALSE

\* ----------------------------------------------------------- scroll reveal
MaxObservers == 2
RevealElements == {"a", "b"}
\* the element lists passed to createScrollReveal
ElementLists == {{"a"}, {"a", "b"}}

\* the module as loaded: no observer, no element revealed
RevealLoaded ==
  /\ srVisible = {}
  /\ srObservers = <<>>
  /\ activeObservers = <<>>
  /\ srReturned = {}
  /\ srOp = "load"

RevealIdle ==
  /\ RevealLoaded
  /\ srBase = {}

\* ---------------------------------------------------------------- reasons
CardIds == {"1", "2", "3"}
NoCard == "null"
ReasonKeys == {"Enter", " ", "a"}

\* createReasons(): nothing rendered
ReasonsCreated ==
  /\ reasons = [isInitialized |-> FALSE, isRendered |-> FALSE,
                hoveredCardId |-> NoCard, expandedCardId |-> NoCard]
  /\ reasonCards = <<>>
  /\ reasonListeners = {}
  /\ reasonsOp = "createReasons"

ReasonsIdle ==
  /\ ReasonsCreated
  /\ reasonsDoc = TRUE

\* ------------------------------------------------- pages for the tracker
Section(id, top, height) == [id |-> id, top |-> top, height |-> height]
Layout(sections, innerHeight, scrollHeight) ==
  [sections |-> sections, innerHeight |-> innerHeight, scrollHeight |-> scrollHeight]

\* pages with the sections cacheElements finds, in the order hero, reasons,
\* gallery, game: sections that touch, sections with gaps between them,
\* sections that overlap, a page laid out in another order, a page without
\* gallery and game, a page with no section, a page shorter than the window
Layouts ==
  { Layout(Sections, Page.innerHeight, Page.scrollHeight),
    Layout(<<Section("hero", 0, 400), Section("reasons", 600, 400),
             Section("gallery", 1200, 400), Section("game", 1800, 400)>>, 700, 2400),
    Layout(<<Section("hero", 0, 800), Section("reasons", 600, 800),
             Section("gallery", 1200, 800), Section("game", 1800, 600)>>, 700, 2400),
    Layout(<<Section("hero", 0, 600), Section("reasons", 1200, 600),
             Section("gallery", 600, 600), Section("game", 1800, 600)>>, 700, 2400),
    Layout(<<Section("hero", 0, 600), Section("reasons", 600, 600)>>, 700, 2400),
    Layout(<<>>, 700, 2400),
    Layout(<<Section("hero", 0, 300), Section("reasons", 300, 300)>>, 700, 600) }

\* the scroll positions of a page, fifty pixels apart, down to its end
ScrollStops(layout) ==
  {0} \cup {y \in 0..(layout.scrollHeight - layout.innerHeight) : y % 50 = 0}

SectionConstructed ==
  /\ secY = 0
  /\ secActive = "hero"
  /\ secOp = "new"

SectionIdle ==
  /\ SectionConstructed
  /\ secLayout = Layout(Sections, Page.innerHeight, Page.scrollHeight)

ExtIdle ==
  /\ ScaleIdle
  /\ CleanIdle
  /\ NavIdle
  /\ HeroIdle
  /\ HeartsIdle
  /\ SectionIdle
  /\ CopyIdle
  /\ ReasonsIdle
  /\ RevealIdle
  /\ MotionIdle
  /\ GalleryIdle

Init ==
  /\ state = createInitialState
  /\ dom = InitialDom
  /\ document \in DocumentOptions
  /\ refs = [e \in Elems |-> FALSE]
  /\ listeners = {}
  /\ cleanupFunctions = <<>>
  /\ isInitialized = FALSE
  /\ op = "createLoveGame"
  /\ called = "none"
  /\ pre = InitialSnapshot
  /\ renders = 0
  /\ callbacks = 0
  /\ PosIdle
  /\ ExtIdle

Next ==
  \/ GameInit
  \/ NoMouseEnter
  \/ NoTouchStart
  \/ YesClick
  \/ YesTouchEnd
  \/ YesKeyDown
  \/ GameEvadeNoButton
  \/ GameTriggerCelebration
  \/ GameDestroy

Spec == Init /\ [][Next]_vars

\* a game whose caller keeps the record getState() returned and writes to it
SpecGetState == Init /\ [][NextGetState]_vars


\* ------------------- the exported functions on a state the caller owns
\* The caller has created a state with createInitialState() and attached
\* the handlers with setupNoButtonHandlers and setupYesButtonHandlers.
InitApi ==
  /\ state = createInitialState
  /\ dom = InitialDom
  /\ document = Elems
  /\ refs = [e \in Elems |-> TRUE]
  /\ listeners = NoEvents \cup YesEvents
  /\ cleanupFunctions = <<>>
  /\ isInitialized = FALSE
  /\ op = "setupHandlers"
  /\ called = "none"
  /\ pre = InitialSnapshot
  /\ renders = 0
  /\ callbacks = 0
  /\ PosIdle
  /\ ExtIdle

\* evadeNoButton(button, container, state, config)
ApiEvadeNoButton ==
  /\ state.evasionCount < MaxEvasions
  /\ \E rect \in GameRects :
       \E newPosition \in calculateEvasionPosition(rect, state.noButtonPosition) :
         Step("evadeNoButton", evadeNoButton(state, dom, newPosition))
  /\ UNCHANGED <<document, refs, listeners, cleanupFunctions, isInitialized, posVars, extVars>>
  /\ CopyFollows

\* triggerCelebration(celebrationContainer, state, config)
ApiTriggerCelebration ==
  /\ renders < MaxRenders
  /\ \E reducedMotion \in BOOLEAN, seed \in HeartSeeds :
       Step("triggerCelebration", triggerCelebration(state, dom, reducedMotion, seed))
  /\ UNCHANGED <<document, refs, listeners, cleanupFunctions, isInitialized, posVars, extVars>>
  /\ CopyFollows

NextApi ==
  \/ ApiEvadeNoButton
  \/ ApiTriggerCelebration
  \/ NoMouseEnter
  \/ NoTouchStart
  \/ YesClick
  \/ YesTouchEnd
  \/ YesKeyDown

SpecApi == InitApi /\ [][NextApi]_vars

\* only the input events, on handlers that stay attached
NextHandlers ==
  \/ NoMouseEnter
  \/ NoTouchStart
  \/ YesClick
  \/ YesTouchEnd
  \/ YesKeyDown

SpecHandlers == InitApi /\ [][NextHandlers]_vars

\* ---------------------- one call of calculateEvasionPosition, draw by draw
InitPos ==
  /\ state = createInitialState
  /\ dom = InitialDom
  /\ document = Elems
  /\ refs = [e \in Elems |-> FALSE]
  /\ listeners = {}
  /\ cleanupFunctions = <<>>
  /\ isInitialized = FALSE
  /\ op = "calculateEvasionPosition"
  /\ called = "none"
  /\ pre = InitialSnapshot
  /\ renders = 0
  /\ callbacks = 0
  /\ pcPos = "loop"
  /\ posIn \in [rect : Rects, currentPosition : CurrentPositions]
  /\ attempts = 0
  /\ candidate = Pos(0, 0)
  /\ ExtIdle

\* one pass through the body of the do/while loop, and its condition
PosDraw ==
  /\ pcPos = "loop"
  /\ attempts < MaxDraws
  /\ \E kx \in Randoms, ky \in Randoms :
       LET safeMaxX == SafeMax(AvailableSpace(posIn.rect.cw, posIn.rect.bw))
           safeMaxY == SafeMax(AvailableSpace(posIn.rect.ch, posIn.rect.bh))
           drawn == Pos(DrawCoordinate(kx, safeMaxX), DrawCoordinate(ky, safeMaxY))
       IN  /\ candidate' = drawn
           /\ attempts' = attempts + 1
           /\ pcPos' = IF LoopContinues(attempts + 1, drawn, posIn.currentPosition)
                       THEN "loop" ELSE "done"
  /\ UNCHANGED <<posIn, gameVars, extVars, galVars, motionVars, revealVars, reasonsVars, copyVars, sectionVars>>

NextPos == PosDraw

SpecPos == InitPos /\ [][NextPos]_vars

FairSpecPos == InitPos /\ [][NextPos]_vars /\ WF_vars(PosDraw)

\* ------------------------------------- one call of calculateShrinkScale
\* no love game is running
GameIdle ==
  /\ state = createInitialState
  /\ dom = InitialDom
  /\ document = Elems
  /\ refs = [e \in Elems |-> FALSE]
  /\ listeners = {}
  /\ cleanupFunctions = <<>>
  /\ isInitialized = FALSE
  /\ op = "none"
  /\ called = "none"
  /\ pre = InitialSnapshot
  /\ renders = 0
  /\ callbacks = 0

\* a shrinkThreshold is a positive integer, a minScale lies in (0, 1]
ScaleInputs ==
  [evasionCount : 0 .. MaxCount, threshold : 1 .. MaxThreshold, minScale : 1 .. ScaleOne]

InitScale ==
  /\ GameIdle
  /\ PosIdle
  /\ CleanIdle
  /\ NavIdle
  /\ HeroIdle
  /\ HeartsIdle
  /\ SectionIdle
  /\ CopyIdle
  /\ ReasonsIdle
  /\ RevealIdle
  /\ MotionIdle
  /\ GalleryIdle
  /\ scaleIn \in ScaleInputs
  /\ scaleOut = -1

ScaleCall ==
  /\ scaleOut = -1
  /\ scaleOut' = calculateShrinkScale(scaleIn.evasionCount, scaleIn.threshold,
                                      scaleIn.minScale)
  /\ UNCHANGED <<scaleIn, cleaned, navVars, heroVars, heartVars, gameVars, posVars, galVars, motionVars, revealVars, reasonsVars, copyVars, sectionVars>>

NextScale == ScaleCall

SpecScale == InitScale /\ [][NextScale]_vars

\* ------------------------- the handlers and the cleanup closures they return
removeNoListenersKeepsTouch(ls) == ls \ {"mouseenter"}

\* the closure setupNoButtonHandlers returns
removeNoListeners(ls) == ls \ {"mouseenter", "touchstart"}

\* the closure setupYesButtonHandlers returns
removeYesListeners(ls) == ls \ {"click", "touchend", "keydown"}

Cleanup(button, ls) ==
  /\ listeners' = ls
  /\ cleaned' = cleaned \cup {button}
  /\ Step("cleanup", Same)
  /\ UNCHANGED <<document, refs, cleanupFunctions, isInitialized, posVars, scaleVars, navVars, heroVars, heartVars, galVars, motionVars, revealVars, reasonsVars, copyVars, sectionVars>>

CleanupNo == Cleanup("no", removeNoListeners(listeners))
CleanupYes == Cleanup("yes", removeYesListeners(listeners))

NextCleanup ==
  \/ NoMouseEnter
  \/ NoTouchStart
  \/ YesClick
  \/ YesTouchEnd
  \/ YesKeyDown
  \/ CleanupNo
  \/ CleanupYes

SpecCleanup == InitApi /\ [][NextCleanup]_vars
\* ---------------------------------------------------- a Navigation instance
NavResult(ns, nd) == [state |-> ns, dom |-> nd]

\* toggleMenu(force) for the value the menu ends with
setMenu(ns, nd, open) ==
  NavResult([ns EXCEPT !.isMenuOpen = open],
            [nd EXCEPT !.menuOpen = IF navCached THEN open ELSE @,
                       !.ariaExpanded = IF navCached THEN open ELSE @,
                       !.toggleActive = IF navCached THEN open ELSE @,
                       !.bodyOverflowHidden = open])

toggleMenu(ns, nd) == setMenu(ns, nd, ~ns.isMenuOpen)
closeMenu(ns, nd) == setMenu(ns, nd, FALSE)

\* the links whose href is "#sectionId": one per section of SectionIds
LinksTo(sectionId) == {id \in NavLinkTargets : id = sectionId}

setActiveSectionKeepsOthers(ns, nd, sectionId, cached) ==
  NavResult([ns EXCEPT !.activeSection = sectionId],
            [nd EXCEPT !.activeLinks = IF cached THEN @ \cup LinksTo(sectionId) ELSE @])

setActiveSection(ns, nd, sectionId, cached) ==
  NavResult([ns EXCEPT !.activeSection = sectionId],
            [nd EXCEPT !.activeLinks = IF cached THEN LinksTo(sectionId) ELSE @])

\* a loop without the break: the last section that contains the position
RECURSIVE LastContainingIn(_, _, _)
LastContainingIn(sections, scrollPosition, i) ==
  IF i > Len(sections) THEN "hero"
  ELSE LET rest == LastContainingIn(sections, scrollPosition, i + 1)
       IN  IF /\ rest = "hero"
              /\ scrollPosition >= sections[i].top
              /\ scrollPosition < sections[i].top + sections[i].height
           THEN sections[i].id
           ELSE rest

\* the loop of updateActiveSection over this.sections, from the i-th on
RECURSIVE FirstContainingIn(_, _, _)
FirstContainingIn(sections, scrollPosition, i) ==
  IF i > Len(sections) THEN "hero"
  ELSE IF /\ scrollPosition >= sections[i].top
          /\ scrollPosition < sections[i].top + sections[i].height
       THEN sections[i].id
       ELSE FirstContainingIn(sections, scrollPosition, i + 1)

FirstContaining(scrollPosition, i) == FirstContainingIn(Sections, scrollPosition, i)

\* the section updateActiveSection computes on a page at scroll position y
currentSectionOn(layout, y) ==
  LET scrollPosition == y + scrollOffset + ActiveMargin
      isAtBottom == layout.innerHeight + y >= layout.scrollHeight - BottomMargin
  IN  IF isAtBottom /\ Len(layout.sections) > 0
      THEN layout.sections[Len(layout.sections)].id
      ELSE FirstContainingIn(layout.sections, scrollPosition, 1)

\* the section updateActiveSection computes for scroll position y, with the
\* sections cacheElements found (none before init)
CurrentSection(y, cached) ==
  currentSectionOn([sections |-> IF cached THEN Sections ELSE <<>>,
                    innerHeight |-> Page.innerHeight,
                    scrollHeight |-> Page.scrollHeight], y)

updateActiveSection(ns, nd, y, cached) ==
  LET currentSection == CurrentSection(y, cached)
  IN  IF currentSection # ns.activeSection
      THEN setActiveSection(ns, nd, currentSection, cached)
      ELSE NavResult(ns, nd)

isMobileView(w) == w.innerWidth < mobileBreakpoint

SectionExists(sectionId) == \E j \in DOMAIN Sections : Sections[j].id = sectionId

\* document.getElementById(id) finds an element
getById(id) == id \in PageElementIds

\* offsetTop of the element with this id: the navigation bar and its menu sit
\* at the top of the page
SectionTop(sectionId) ==
  IF SectionExists(sectionId)
  THEN LET i == CHOOSE j \in DOMAIN Sections : Sections[j].id = sectionId
       IN  Sections[i].top
  ELSE 0

\* where window.scrollTo({top}) ends: the document cannot scroll past its ends
ScrollTarget(top) ==
  LET maxY == Page.scrollHeight - Page.innerHeight
  IN  IF top < 0 THEN 0 ELSE IF top > maxY THEN maxY ELSE top

\* scrollToSection, the part that writes the state and the links
scrollToSection(ns, nd, sectionId) ==
  IF ~getById(sectionId) THEN NavResult(ns, nd)
  ELSE setActiveSection(ns, nd, sectionId, navCached)

\* scrollToSection, the part that scrolls the window
scrollToSectionWindow(w, sectionId) ==
  IF ~getById(sectionId) THEN w
  ELSE [w EXCEPT !.scrollY = ScrollTarget(SectionTop(sectionId) - scrollOffset)]

handleLinkClick(ns, nd, w, sectionId) ==
  LET r == scrollToSection(ns, nd, sectionId)
  IN  IF isMobileView(w) THEN closeMenu(r.state, r.dom) ELSE r

handleOutsideClick(ns, nd, inside) ==
  IF ns.isMenuOpen /\ ~inside THEN closeMenu(ns, nd) ELSE NavResult(ns, nd)

navHandleKeyDown(ns, nd, key) ==
  IF key = "Escape" /\ ns.isMenuOpen THEN closeMenu(ns, nd) ELSE NavResult(ns, nd)

handleResize(ns, nd, w) ==
  IF ~isMobileView(w) /\ ns.isMenuOpen THEN closeMenu(ns, nd) ELSE NavResult(ns, nd)

\* a public method called with an id
NavCall(name, arg, r) ==
  /\ navState' = r.state
  /\ navDom' = r.dom
  /\ navOp' = name
  /\ navArg' = arg
  /\ navPre' = [state |-> navState, dom |-> navDom]

NavStep(name, r) == NavCall(name, "", r)

NavKeep == NavResult(navState, navDom)

\* navigation.init(): cacheElements, bindEvents, updateActiveSection
NavInit ==
  /\ ~navInitialized
  /\ navInitialized' = TRUE
  /\ navCached' = TRUE
  /\ navListeners' = navListeners \cup BoundEvents
  /\ NavStep("init", updateActiveSection(navState, navDom, win.scrollY, TRUE))
  /\ UNCHANGED <<win, inThrottle, resizeTimeout, navDestroyed>>
  /\ UNCHANGED <<gameVars, posVars, scaleVars, cleaned, heroVars, heartVars, galVars, motionVars, revealVars, reasonsVars, copyVars, sectionVars>>

\* a click on the hamburger button (it bubbles to document, target inside
\* #main-nav)
NavToggleClick ==
  /\ LET r == IF "toggleClick" \in navListeners
              THEN toggleMenu(navState, navDom) ELSE NavKeep
     IN  NavStep("toggleClick",
                 IF "docClick" \in navListeners
                 THEN handleOutsideClick(r.state, r.dom, TRUE) ELSE r)
  /\ UNCHANGED <<navCached, navListeners, win, inThrottle, resizeTimeout,
                 navInitialized, navDestroyed>>
  /\ UNCHANGED <<gameVars, posVars, scaleVars, cleaned, heroVars, heartVars, galVars, motionVars, revealVars, reasonsVars, copyVars, sectionVars>>

\* a click on the navigation link with href="#id"
NavLinkClick ==
  /\ \E i \in DOMAIN SectionIds :
       LET sectionId == SectionIds[i]
           bound == "linkClick" \in navListeners
           r == IF bound THEN handleLinkClick(navState, navDom, win, sectionId)
                ELSE NavKeep
       IN  /\ NavStep("linkClick",
                      IF "docClick" \in navListeners
                      THEN handleOutsideClick(r.state, r.dom, TRUE) ELSE r)
           /\ win' = IF bound THEN scrollToSectionWindow(win, sectionId) ELSE win
  /\ UNCHANGED <<navCached, navListeners, inThrottle, resizeTimeout,
                 navInitialized, navDestroyed>>
  /\ UNCHANGED <<gameVars, posVars, scaleVars, cleaned, heroVars, heartVars, galVars, motionVars, revealVars, reasonsVars, copyVars, sectionVars>>

\* a click elsewhere in the document, inside or outside #main-nav
NavDocClick ==
  /\ \E inside \in BOOLEAN :
       NavStep("docClick",
               IF "docClick" \in navListeners
               THEN handleOutsideClick(navState, navDom, inside) ELSE NavKeep)
  /\ UNCHANGED <<navCached, navListeners, win, inThrottle, resizeTimeout,
                 navInitialized, navDestroyed>>
  /\ UNCHANGED <<gameVars, posVars, scaleVars, cleaned, heroVars, heartVars, galVars, motionVars, revealVars, reasonsVars, copyVars, sectionVars>>

NavDocKeyDown ==
  /\ \E key \in NavKeys :
       NavStep("docKeydown",
               IF "docKeydown" \in navListeners
               THEN navHandleKeyDown(navState, navDom, key) ELSE NavKeep)
  /\ UNCHANGED <<navCached, navListeners, win, inThrottle, resizeTimeout,
                 navInitialized, navDestroyed>>
  /\ UNCHANGED <<gameVars, posVars, scaleVars, cleaned, heroVars, heartVars, galVars, motionVars, revealVars, reasonsVars, copyVars, sectionVars>>

\* the page is scrolled to y and a scroll event reaches the throttled handler
NavWindowScroll ==
  /\ \E y \in ScrollPositions :
       /\ win' = [win EXCEPT !.scrollY = y]
       /\ IF "scroll" \in navListeners /\ ~inThrottle
          THEN /\ NavStep("scroll", updateActiveSection(navState, navDom, y, navCached))
               /\ inThrottle' = TRUE
          ELSE /\ NavStep("scroll", NavKeep)
               /\ UNCHANGED inThrottle
  /\ UNCHANGED <<navCached, navListeners, resizeTimeout, navInitialized, navDestroyed>>
  /\ UNCHANGED <<gameVars, posVars, scaleVars, cleaned, heroVars, heartVars, galVars, motionVars, revealVars, reasonsVars, copyVars, sectionVars>>

\* the throttle's setTimeout callback
NavThrottleExpire ==
  /\ inThrottle
  /\ inThrottle' = FALSE
  /\ NavStep("throttleTimer", NavKeep)
  /\ UNCHANGED <<navCached, navListeners, win, resizeTimeout, navInitialized,
                 navDestroyed>>
  /\ UNCHANGED <<gameVars, posVars, scaleVars, cleaned, heroVars, heartVars, galVars, motionVars, revealVars, reasonsVars, copyVars, sectionVars>>

\* the window is resized to width w: the debounced handler (re)starts its timer
NavWindowResize ==
  /\ \E w \in Widths :
       win' = [win EXCEPT !.innerWidth = w]
  /\ resizeTimeout' = IF "resize" \in navListeners THEN TRUE ELSE resizeTimeout
  /\ NavStep("resize", NavKeep)
  /\ UNCHANGED <<navCached, navListeners, inThrottle, navInitialized, navDestroyed>>
  /\ UNCHANGED <<gameVars, posVars, scaleVars, cleaned, heroVars, heartVars, galVars, motionVars, revealVars, reasonsVars, copyVars, sectionVars>>

\* the debounce's setTimeout callback
NavResizeFire ==
  /\ resizeTimeout
  /\ resizeTimeout' = FALSE
  /\ NavStep("resizeTimer", handleResize(navState, navDom, win))
  /\ UNCHANGED <<navCached, navListeners, win, inThrottle, navInitialized,
                 navDestroyed>>
  /\ UNCHANGED <<gameVars, posVars, scaleVars, cleaned, heroVars, heartVars, galVars, motionVars, revealVars, reasonsVars, copyVars, sectionVars>>

\* the listeners destroy() detaches: scroll and resize by their stored
\* handlers; the document listeners are "removed" with newly bound functions,
\* which match no attached listener
destroyListeners(ls) ==
  IF navInitialized THEN ls \ {"scroll", "resize"} ELSE ls

NavDestroy ==
  /\ navListeners' = destroyListeners(navListeners)
  /\ navDestroyed' = TRUE
  /\ NavStep("destroy", closeMenu(navState, navDom))
  /\ UNCHANGED <<navCached, win, inThrottle, resizeTimeout, navInitialized>>
  /\ UNCHANGED <<gameVars, posVars, scaleVars, cleaned, heroVars, heartVars, galVars, motionVars, revealVars, reasonsVars, copyVars, sectionVars>>

\* navigation.scrollToSection(id), called by the page's code
NavScrollToSection ==
  /\ \E id \in CallIds :
       /\ NavCall("scrollToSection", id, scrollToSection(navState, navDom, id))
       /\ win' = scrollToSectionWindow(win, id)
  /\ UNCHANGED <<navCached, navListeners, inThrottle, resizeTimeout,
                 navInitialized, navDestroyed>>
  /\ UNCHANGED <<gameVars, posVars, scaleVars, cleaned, heroVars, heartVars, galVars, motionVars, revealVars, reasonsVars, copyVars, sectionVars>>

\* navigation.setActiveSection(id) with the id of a section
NavSetActiveSection ==
  /\ \E id \in NavLinkTargets :
       NavCall("setActiveSection", id, setActiveSection(navState, navDom, id, navCached))
  /\ UNCHANGED <<navCached, navListeners, win, inThrottle, resizeTimeout,
                 navInitialized, navDestroyed>>
  /\ UNCHANGED <<gameVars, posVars, scaleVars, cleaned, heroVars, heartVars, galVars, motionVars, revealVars, reasonsVars, copyVars, sectionVars>>

InitNav ==
  /\ GameIdle
  /\ PosIdle
  /\ ScaleIdle
  /\ CleanIdle
  /\ NavConstructed
  /\ win \in [scrollY : ScrollPositions, innerWidth : Widths]
  /\ HeroIdle
  /\ HeartsIdle
  /\ SectionIdle
  /\ CopyIdle
  /\ ReasonsIdle
  /\ RevealIdle
  /\ MotionIdle
  /\ GalleryIdle

NextNav ==
  \/ NavInit
  \/ NavToggleClick
  \/ NavLinkClick
  \/ NavDocClick
  \/ NavDocKeyDown
  \/ NavWindowScroll
  \/ NavThrottleExpire
  \/ NavWindowResize
  \/ NavResizeFire
  \/ NavDestroy

SpecNav == InitNav /\ [][NextNav]_vars

\* the public methods that move the active section, with the scroll events
NextNavApi ==
  \/ NavInit
  \/ NavScrollToSection
  \/ NavSetActiveSection
  \/ NavLinkClick
  \/ NavWindowScroll
  \/ NavThrottleExpire
  \/ NavDestroy

SpecNavApi == InitNav /\ [][NextNavApi]_vars
\* ------------------------------------------------------ a createHero instance
HeroDocs ==
  { FullHeroDoc,
    [hero |-> TRUE, scrollIndicator |-> TRUE, nextSection |-> FALSE],
    [hero |-> TRUE, scrollIndicator |-> FALSE, nextSection |-> TRUE],
    [hero |-> FALSE, scrollIndicator |-> FALSE, nextSection |-> TRUE] }

applyEntranceAnimations(d, reducedMotion) ==
  [d EXCEPT !.classes = @ \cup (IF reducedMotion THEN {"hero-animated"}
                                ELSE {"hero-animate-in"})]

\* scrollClickHandler: one scrollIntoView call when the next section exists
scrollClickCalls == IF heroDoc.nextSection THEN 1 ELSE 0

\* hero.init()
HeroInit ==
  /\ heroInits < MaxHeroInits
  /\ heroInits' = heroInits + 1
  /\ heroOp' = "init"
  /\ heroScrolled' = 0
  /\ heroDestroyed' = FALSE
  /\ IF ~heroDoc.hero
     THEN UNCHANGED <<heroState, heroRefs, heroListeners, heroDom>>
     ELSE /\ heroState' = [heroState EXCEPT !.isAnimated = TRUE]
          /\ \E reducedMotion \in BOOLEAN :
               heroDom' = [applyEntranceAnimations(heroDom, reducedMotion)
                             EXCEPT !.indicatorButton = @ \/ heroDoc.scrollIndicator]
          /\ IF heroDoc.scrollIndicator
             THEN /\ heroRefs' = [scrollIndicator |-> TRUE, scrollClickHandler |-> TRUE]
                  /\ heroListeners' = [click |-> heroListeners.click + 1,
                                       latestClick |-> TRUE,
                                       keydown |-> heroListeners.keydown + 1]
             ELSE /\ heroRefs' = [heroRefs EXCEPT !.scrollIndicator = FALSE]
                  /\ UNCHANGED heroListeners
  /\ UNCHANGED heroDoc
  /\ UNCHANGED <<gameVars, posVars, scaleVars, cleaned, navVars, heartVars, galVars, motionVars, revealVars, reasonsVars, copyVars, sectionVars>>

\* a click on the scroll indicator: every attached click listener runs
HeroIndicatorClick ==
  /\ heroDoc.scrollIndicator
  /\ heroOp' = "click"
  /\ heroScrolled' = heroListeners.click * scrollClickCalls
  /\ UNCHANGED <<heroState, heroDoc, heroRefs, heroListeners, heroDom, heroInits,
                 heroDestroyed>>
  /\ UNCHANGED <<gameVars, posVars, scaleVars, cleaned, navVars, heartVars, galVars, motionVars, revealVars, reasonsVars, copyVars, sectionVars>>

\* a keydown on the scroll indicator: every attached keydown listener runs
\* scrollClickHandler?.() for Enter and Space
HeroIndicatorKeyDown ==
  /\ heroDoc.scrollIndicator
  /\ \E key \in Keys :
       /\ heroOp' = KeyName(key)
       /\ heroScrolled' =
            IF (key = "Enter" \/ key = " ") /\ heroRefs.scrollClickHandler
            THEN heroListeners.keydown * scrollClickCalls
            ELSE 0
  /\ UNCHANGED <<heroState, heroDoc, heroRefs, heroListeners, heroDom, heroInits,
                 heroDestroyed>>
  /\ UNCHANGED <<gameVars, posVars, scaleVars, cleaned, navVars, heartVars, galVars, motionVars, revealVars, reasonsVars, copyVars, sectionVars>>

\* hero.destroy(): removes the click listener init() stored last
HeroDestroy ==
  /\ heroOp' = "destroy"
  /\ heroScrolled' = 0
  /\ heroDestroyed' = TRUE
  /\ heroListeners' =
       IF heroRefs.scrollIndicator /\ heroRefs.scrollClickHandler /\ heroListeners.latestClick
       THEN [heroListeners EXCEPT !.click = @ - 1, !.latestClick = FALSE]
       ELSE heroListeners
  /\ heroState' = [heroState EXCEPT !.isAnimated = FALSE]
  /\ UNCHANGED <<heroDoc, heroRefs, heroDom, heroInits>>
  /\ UNCHANGED <<gameVars, posVars, scaleVars, cleaned, navVars, heartVars, galVars, motionVars, revealVars, reasonsVars, copyVars, sectionVars>>

InitHero ==
  /\ GameIdle
  /\ PosIdle
  /\ ScaleIdle
  /\ CleanIdle
  /\ NavIdle
  /\ HeroCreated
  /\ heroDoc \in HeroDocs
  /\ HeartsIdle
  /\ SectionIdle
  /\ CopyIdle
  /\ ReasonsIdle
  /\ RevealIdle
  /\ MotionIdle
  /\ GalleryIdle

NextHero ==
  \/ HeroInit
  \/ HeroIndicatorClick
  \/ HeroIndicatorKeyDown
  \/ HeroDestroy

SpecHero == InitHero /\ [][NextHero]_vars
\* ------------------------------------------ floating hearts (animations.ts)
clearFloatingHearts(h, container) ==
  [h EXCEPT !.inDom[container] = 0, !.activeHearts = 0]

\* createFloatingHearts(container, count) when prefersReducedMotion() returns
\* `reduced`: the module state it leaves and the length of the array returned
createFloatingHearts(h, container, count, reduced) ==
  IF reduced
  THEN [hearts |-> h, ret |-> 0]
  ELSE LET cleared == clearFloatingHearts(h, container)
       IN  [hearts |->
              [cleared EXCEPT
                 !.inDom[container] = count,
                 !.activeHearts = count,
                 !.motionPreferenceCleanup =
                    IF @.registered THEN @
                    ELSE [registered |-> TRUE, container |-> container,
                          count |-> count]],
            ret |-> count]

\* the callback createFloatingHearts passed to onMotionPreferenceChange, with
\* the container and count of the call that registered it
motionCallback(h, prefersReduced) ==
  LET closure == h.motionPreferenceCleanup
  IN  IF prefersReduced
      THEN clearFloatingHearts(h, closure.container)
      ELSE createFloatingHearts(h, closure.container, closure.count, FALSE).hearts

cleanupFloatingHearts(h) ==
  [h EXCEPT !.motionPreferenceCleanup = NoClosure, !.activeHearts = 0]

HeartsCreate ==
  /\ heartsCreates < MaxCreates
  /\ \E container \in Containers, count \in HeartCounts :
       LET r == createFloatingHearts(hearts, container, count, motionReduced)
       IN  /\ hearts' = r.hearts
           /\ heartsRet' = r.ret
           /\ firstCreate' = IF heartsCreates = 0
                             THEN [registered |-> TRUE, container |-> container,
                                   count |-> count]
                             ELSE firstCreate
  /\ heartsCreates' = heartsCreates + 1
  /\ heartsOp' = "create"
  /\ UNCHANGED <<motionReduced, heartsCleaned>>
  /\ UNCHANGED <<gameVars, posVars, scaleVars, cleaned, navVars, heroVars, galVars, motionVars, revealVars, reasonsVars, copyVars, sectionVars>>

\* the user switches the preference: the media query's change event reaches
\* the registered listener, if any
MotionPreferenceChange ==
  /\ motionReduced' = ~motionReduced
  /\ hearts' = IF hearts.motionPreferenceCleanup.registered
               THEN motionCallback(hearts, ~motionReduced)
               ELSE hearts
  /\ heartsOp' = "change"
  /\ heartsRet' = -1
  /\ UNCHANGED <<heartsCreates, firstCreate, heartsCleaned>>
  /\ UNCHANGED <<gameVars, posVars, scaleVars, cleaned, navVars, heroVars, galVars, motionVars, revealVars, reasonsVars, copyVars, sectionVars>>

HeartsCleanup ==
  /\ hearts' = cleanupFloatingHearts(hearts)
  /\ heartsOp' = "cleanup"
  /\ heartsRet' = -1
  /\ heartsCleaned' = TRUE
  /\ UNCHANGED <<motionReduced, heartsCreates, firstCreate>>
  /\ UNCHANGED <<gameVars, posVars, scaleVars, cleaned, navVars, heroVars, galVars, motionVars, revealVars, reasonsVars, copyVars, sectionVars>>

InitHearts ==
  /\ GameIdle
  /\ PosIdle
  /\ ScaleIdle
  /\ CleanIdle
  /\ NavIdle
  /\ HeroIdle
  /\ HeartsLoaded
  /\ motionReduced \in BOOLEAN
  /\ SectionIdle
  /\ CopyIdle
  /\ ReasonsIdle
  /\ RevealIdle
  /\ MotionIdle
  /\ GalleryIdle

NextHearts ==
  \/ HeartsCreate
  \/ MotionPreferenceChange
  \/ HeartsCleanup

SpecHearts == InitHearts /\ [][NextHearts]_vars
\* --------------------------------------------------- a createGallery instance
handleRevealFlips(g, id) ==
  [g EXCEPT !.photos[id] = ~@,
            !.revealedPhotos = IF id \in @ THEN @ \ {id} ELSE @ \cup {id},
            !.revealedClass = IF id \in @ THEN @ \ {id} ELSE @ \cup {id},
            !.ariaPressed = IF id \in @ THEN @ \ {id} ELSE @ \cup {id}]

\* revealPhoto(cardElement, photo, state)
revealPhoto(g, id) ==
  IF g.photos[id]
  THEN g
  ELSE [g EXCEPT !.photos[id] = TRUE,
                 !.revealedPhotos = @ \cup {id},
                 !.revealedClass = @ \cup {id},
                 !.ariaPressed = @ \cup {id}]

\* handleReveal of setupCardInteraction (no onReveal callback is passed)
handleReveal(g, id) == IF ~g.photos[id] THEN revealPhoto(g, id) ELSE g

galHandleKeyDown(g, id, key) ==
  IF key = "Enter" \/ key = " " THEN handleReveal(g, id) ELSE g

revealPhotoById(g, id) ==
  IF id \notin PhotoIds THEN g
  ELSE IF id \in g.cardElements /\ ~g.photos[id] THEN revealPhoto(g, id)
  ELSE g

RECURSIVE RevealEach(_, _)
RevealEach(g, ids) ==
  IF ids = {} THEN g
  ELSE LET id == CHOOSE i \in ids : TRUE
           g1 == IF id \in g.cardElements /\ ~g.photos[id] THEN revealPhoto(g, id) ELSE g
       IN  RevealEach(g1, ids \ {id})

revealAll(g) == RevealEach(g, PhotoIds)

\* gallery.init(): render the cards, attach the handlers, sync the set
galleryInit(g, hasContainer) ==
  IF g.isInitialized THEN g
  ELSE IF ~hasContainer THEN [g EXCEPT !.container = FALSE]
  ELSE LET shown == { id \in PhotoIds : g.photos[id] }
       IN  [g EXCEPT !.container = TRUE,
                     !.cardElements = PhotoIds,
                     !.revealedClass = shown,
                     !.ariaPressed = shown,
                     !.listeners = PhotoIds,
                     !.revealedPhotos = @ \cup shown,
                     !.isInitialized = TRUE]

\* gallery.destroy(): detach, clear the container, clear the set
galleryDestroy(g) ==
  [g EXCEPT !.listeners = {},
            !.cardElements = {},
            !.revealedClass = {},
            !.ariaPressed = {},
            !.revealedPhotos = {},
            !.isInitialized = FALSE]

GalFrame == UNCHANGED <<gameVars, posVars, scaleVars, cleaned, navVars, heroVars, heartVars, motionVars, revealVars, reasonsVars, copyVars, sectionVars>>

GalInit ==
  /\ gallery' = galleryInit(gallery, galDoc)
  /\ galOp' = "init"
  /\ UNCHANGED <<galDoc, galInitial, galActivated>>
  /\ GalFrame

\* a click on a rendered card
GalCardClick ==
  /\ \E id \in gallery.cardElements :
       /\ gallery' = IF id \in gallery.listeners THEN handleReveal(gallery, id) ELSE gallery
       /\ galActivated' = galActivated \cup {id}
  /\ galOp' = "click"
  /\ UNCHANGED <<galDoc, galInitial>>
  /\ GalFrame

\* a keydown on a rendered card
GalCardKeyDown ==
  /\ \E id \in gallery.cardElements, key \in Keys :
       /\ gallery' = IF id \in gallery.listeners
                     THEN galHandleKeyDown(gallery, id, key) ELSE gallery
       /\ galActivated' = IF key = "Enter" \/ key = " "
                          THEN galActivated \cup {id} ELSE galActivated
       /\ galOp' = KeyName(key)
  /\ UNCHANGED <<galDoc, galInitial>>
  /\ GalFrame

\* gallery.revealPhoto(photoId)
GalRevealPhoto ==
  /\ \E id \in PhotoIds \cup {"none"} :
       gallery' = revealPhotoById(gallery, id)
  /\ galOp' = "revealPhoto"
  /\ UNCHANGED <<galDoc, galInitial, galActivated>>
  /\ GalFrame

GalRevealAll ==
  /\ gallery' = revealAll(gallery)
  /\ galOp' = "revealAll"
  /\ UNCHANGED <<galDoc, galInitial, galActivated>>
  /\ GalFrame

GalDestroy ==
  /\ gallery' = galleryDestroy(gallery)
  /\ galOp' = "destroy"
  /\ UNCHANGED <<galDoc, galInitial, galActivated>>
  /\ GalFrame

InitGallery ==
  /\ GameIdle
  /\ PosIdle
  /\ ScaleIdle
  /\ CleanIdle
  /\ NavIdle
  /\ HeroIdle
  /\ HeartsIdle
  /\ SectionIdle
  /\ CopyIdle
  /\ ReasonsIdle
  /\ RevealIdle
  /\ MotionIdle
  /\ \E initial \in SUBSET PhotoIds : GalleryCreated(initial)
  /\ galDoc \in BOOLEAN

NextGallery ==
  \/ GalInit
  \/ GalCardClick
  \/ GalCardKeyDown
  \/ GalRevealPhoto
  \/ GalRevealAll
  \/ GalDestroy

SpecGallery == InitGallery /\ [][NextGallery]_vars

\* init and the card interactions only
NextGalleryCards ==
  \/ GalInit
  \/ GalCardClick
  \/ GalCardKeyDown

SpecGalleryCards == InitGallery /\ [][NextGalleryCards]_vars

\* ------------------------------------------------- initMotionPreference
prefersReducedMotion == IF mqlSupported THEN mqlMatches ELSE FALSE

\* the callback initMotionPreference subscribes
rootClassCallbackAddsOnly(cls, prefersReduced) ==
  IF prefersReduced THEN TRUE ELSE cls

rootClassCallback(cls, prefersReduced) ==
  IF prefersReduced THEN TRUE ELSE FALSE

\* onMotionPreferenceChange: the handler is attached when a media query list
\* exists
onMotionPreferenceChange(subs, id) ==
  IF mqlSupported THEN subs \cup {id} ELSE subs

MotionFrame ==
  UNCHANGED <<gameVars, posVars, scaleVars, cleaned, navVars, heroVars, heartVars, galVars, revealVars, reasonsVars, copyVars, sectionVars>>

\* initMotionPreference()
MotionInit ==
  /\ motionInits < MaxMotionInits
  /\ motionInits' = motionInits + 1
  /\ rootClass' = IF prefersReducedMotion THEN TRUE ELSE rootClass
  /\ rootClassPre' = rootClass
  /\ motionSubs' = onMotionPreferenceChange(motionSubs, motionInits + 1)
  /\ motionOp' = "initMotionPreference"
  /\ UNCHANGED <<mqlSupported, mqlMatches, motionCleaned>>
  /\ MotionFrame

\* the media query list fires 'change' with event.matches = matches: every
\* attached handler passes it to its callback
MotionChange ==
  /\ mqlSupported
  /\ \E matches \in BOOLEAN :
       /\ mqlMatches' = matches
       /\ rootClass' = IF motionSubs # {} THEN rootClassCallback(rootClass, matches)
                       ELSE rootClass
  /\ rootClassPre' = rootClass
  /\ motionOp' = "change"
  /\ UNCHANGED <<mqlSupported, motionSubs, motionInits, motionCleaned>>
  /\ MotionFrame

\* the cleanup function returned by the id-th initMotionPreference call
MotionCleanup ==
  /\ \E id \in 1..motionInits :
       motionSubs' = motionSubs \ {id}
  /\ rootClass' = FALSE
  /\ rootClassPre' = rootClass
  /\ motionCleaned' = TRUE
  /\ motionOp' = "cleanup"
  /\ UNCHANGED <<mqlSupported, mqlMatches, motionInits>>
  /\ MotionFrame

InitMotion ==
  /\ GameIdle
  /\ PosIdle
  /\ ScaleIdle
  /\ CleanIdle
  /\ NavIdle
  /\ HeroIdle
  /\ HeartsIdle
  /\ SectionIdle
  /\ CopyIdle
  /\ ReasonsIdle
  /\ RevealIdle
  /\ GalleryIdle
  /\ MotionLoaded
  /\ mqlSupported \in BOOLEAN
  /\ mqlMatches \in BOOLEAN
  /\ mqlSupported \/ ~mqlMatches

NextMotion ==
  \/ MotionInit
  \/ MotionChange
  \/ MotionCleanup

SpecMotion == InitMotion /\ [][NextMotion]_vars

\* ------------------------------------------------------- createScrollReveal
\* observerCallback for one entry: the elements carrying the visible class
observerCallbackAlwaysHides(visible, once, target, isIntersecting) ==
  IF isIntersecting THEN visible \cup {target}
  ELSE visible \ {target}

observerCallback(visible, once, target, isIntersecting) ==
  IF isIntersecting THEN visible \cup {target}
  ELSE IF ~once THEN visible \ {target}
  ELSE visible

\* observerCallback for one entry: the elements the observer still observes
observerCallbackObserving(observing, once, target, isIntersecting) ==
  IF isIntersecting /\ once THEN observing \ {target} ELSE observing

\* activeObservers.push(observer)
pushObserverNot(active, id) == active

pushObserver(active, id) == Append(active, id)

\* observer.disconnect()
disconnect(o) == [o EXCEPT !.observing = {}]

ActiveSet == {activeObservers[i] : i \in DOMAIN activeObservers}

RevealFrame ==
  UNCHANGED <<gameVars, posVars, scaleVars, cleaned, navVars, heroVars, heartVars, galVars, motionVars, reasonsVars, copyVars, sectionVars>>

\* createScrollReveal(elements, {once}) while prefersReducedMotion() is
\* reduced: under reduced motion every element is shown and null is returned
SRCreateOf(onceValues) ==
  /\ \E elements \in ElementLists, once \in onceValues, reduced \in BOOLEAN :
       IF reduced
       THEN /\ srVisible' = srVisible \cup elements
            /\ srObservers' =
                 [i \in DOMAIN srObservers |->
                    [srObservers[i] EXCEPT
                       !.given = @ \cup (elements \cap srObservers[i].elements)]]
            /\ srOp' = "createScrollReveal: null"
            /\ UNCHANGED <<srBase, activeObservers, srReturned>>
       ELSE /\ srBase' = srBase \cup elements
            /\ srObservers' =
                 Append(srObservers,
                        [once |-> once, observing |-> elements, elements |-> elements,
                         given |-> srVisible \cap elements, seen |-> {}])
            /\ activeObservers' = pushObserver(activeObservers, Len(srObservers) + 1)
            /\ srReturned' = srReturned \cup {Len(srObservers) + 1}
            /\ srOp' = "createScrollReveal"
            /\ UNCHANGED srVisible
  /\ RevealFrame

SRCreate ==
  /\ Len(srObservers) < MaxObservers
  /\ SRCreateOf(BOOLEAN)

\* createScrollReveal(elements): once is the default, true
SRCreateDefault ==
  /\ Len(srObservers) < MaxObservers
  /\ SRCreateOf({TRUE})

\* an observer reports one entry for an element it observes
SRReport ==
  /\ \E id \in DOMAIN srObservers :
       \E target \in srObservers[id].observing, isIntersecting \in BOOLEAN :
         LET o == srObservers[id]
         IN  /\ srVisible' = observerCallback(srVisible, o.once, target, isIntersecting)
             /\ srObservers' =
                  [i \in DOMAIN srObservers |->
                     LET oi == IF i = id
                               THEN [o EXCEPT !.observing =
                                       observerCallbackObserving(@, o.once, target,
                                                                 isIntersecting)]
                               ELSE srObservers[i]
                     IN  IF isIntersecting /\ target \in oi.elements
                         THEN [oi EXCEPT !.seen = @ \cup {target}]
                         ELSE oi]
  /\ srOp' = "report"
  /\ UNCHANGED <<srBase, activeObservers, srReturned>>
  /\ RevealFrame

\* the caller disconnects an observer createScrollReveal returned
SRDisconnect ==
  /\ \E id \in DOMAIN srObservers :
       /\ srObservers[id].observing # {}
       /\ srObservers' = [srObservers EXCEPT ![id] = disconnect(@)]
  /\ srOp' = "disconnect"
  /\ UNCHANGED <<srVisible, srBase, activeObservers, srReturned>>
  /\ RevealFrame

\* cleanupScrollReveal()
SRCleanup ==
  /\ srObservers' =
       [i \in DOMAIN srObservers |->
          IF i \in ActiveSet THEN disconnect(srObservers[i]) ELSE srObservers[i]]
  /\ activeObservers' = <<>>
  /\ srReturned' = {}
  /\ srOp' = "cleanupScrollReveal"
  /\ UNCHANGED <<srVisible, srBase>>
  /\ RevealFrame

InitReveal ==
  /\ GameIdle
  /\ PosIdle
  /\ ScaleIdle
  /\ CleanIdle
  /\ NavIdle
  /\ HeroIdle
  /\ HeartsIdle
  /\ SectionIdle
  /\ CopyIdle
  /\ ReasonsIdle
  /\ GalleryIdle
  /\ MotionIdle
  /\ RevealLoaded
  /\ srBase \in {{}, RevealElements}

NextReveal ==
  \/ SRCreate
  \/ SRReport
  \/ SRDisconnect
  \/ SRCleanup

SpecReveal == InitReveal /\ [][NextReveal]_vars

\* every createScrollReveal call leaves once at its default
NextRevealOnce ==
  \/ SRCreateDefault
  \/ SRReport
  \/ SRDisconnect
  \/ SRCleanup

SpecRevealOnce == InitReveal /\ [][NextRevealOnce]_vars

\* ------------------------------------------------- a createReasons instance
ReasonsResult(st, cards) == [state |-> st, cards |-> cards]

\* createReasonCardElement, with the flag setupCardHoverHandlers declares
createReasonCardElement == [hover |-> FALSE, expanded |-> FALSE, isExpanded |-> FALSE]

\* renderReasonCards: one element per configured card
renderReasonCards == [id \in CardIds |-> createReasonCardElement]

\* the onToggle callback init passes: collapse the other cards, record the id
onToggle(st, cards, cardId, isExpanded) ==
  IF isExpanded
  THEN ReasonsResult([st EXCEPT !.expandedCardId = cardId],
                     [id \in DOMAIN cards |->
                        IF id # cardId THEN [cards[id] EXCEPT !.expanded = FALSE]
                        ELSE cards[id]])
  ELSE ReasonsResult([st EXCEPT !.expandedCardId = NoCard], cards)

\* handleClick of the card's handlers
reasonHandleClick(st, cards, cardId) ==
  LET isExpanded == ~cards[cardId].isExpanded
      toggled == [cards EXCEPT ![cardId] = [@ EXCEPT !.isExpanded = isExpanded,
                                                      !.expanded = isExpanded]]
  IN  onToggle(st, toggled, cardId, isExpanded)

reasonHandleKeyDown(st, cards, cardId, key) ==
  IF key = "Enter" \/ key = " "
  THEN reasonHandleClick(st, cards, cardId)
  ELSE ReasonsResult(st, cards)

\* handleMouseEnter: applyHoverEffect, then the onHover callback
reasonHandleMouseEnter(st, cards, cardId, reducedMotion) ==
  ReasonsResult([st EXCEPT !.hoveredCardId = cardId],
                [cards EXCEPT ![cardId] =
                   [@ EXCEPT !.hover = IF reducedMotion THEN @ ELSE TRUE]])

\* handleMouseLeave: removeHoverEffect, then the onLeave callback
reasonHandleMouseLeave(st, cards, cardId) ==
  ReasonsResult([st EXCEPT !.hoveredCardId = NoCard],
                [cards EXCEPT ![cardId] = [@ EXCEPT !.hover = FALSE]])

ReasonsStep(name, r) ==
  /\ reasons' = r.state
  /\ reasonCards' = r.cards
  /\ reasonsOp' = name

ReasonsFrame ==
  UNCHANGED <<gameVars, posVars, scaleVars, cleaned, navVars, heroVars, heartVars, galVars, motionVars, revealVars, copyVars, sectionVars>>

\* reasons.init()
ReasonsInit ==
  /\ IF reasons.isInitialized \/ ~reasonsDoc
     THEN /\ ReasonsStep("init", ReasonsResult(reasons, reasonCards))
          /\ UNCHANGED reasonListeners
     ELSE /\ ReasonsStep("init",
                         ReasonsResult([reasons EXCEPT !.isRendered = TRUE,
                                                       !.isInitialized = TRUE],
                                       renderReasonCards))
          /\ reasonListeners' = CardIds
  /\ UNCHANGED reasonsDoc
  /\ ReasonsFrame

\* a click on a rendered card
ReasonsCardClick ==
  /\ \E cardId \in reasonListeners :
       ReasonsStep("click", reasonHandleClick(reasons, reasonCards, cardId))
  /\ UNCHANGED <<reasonListeners, reasonsDoc>>
  /\ ReasonsFrame

\* a key pressed on a rendered card
ReasonsCardKeyDown ==
  /\ \E cardId \in reasonListeners, key \in ReasonKeys :
       ReasonsStep("keydown", reasonHandleKeyDown(reasons, reasonCards, cardId, key))
  /\ UNCHANGED <<reasonListeners, reasonsDoc>>
  /\ ReasonsFrame

\* mouseenter or focus on a rendered card
ReasonsCardEnter ==
  /\ \E cardId \in reasonListeners, reducedMotion \in BOOLEAN :
       ReasonsStep("mouseenter",
                   reasonHandleMouseEnter(reasons, reasonCards, cardId, reducedMotion))
  /\ UNCHANGED <<reasonListeners, reasonsDoc>>
  /\ ReasonsFrame

\* mouseleave or blur on a rendered card
ReasonsCardLeave ==
  /\ \E cardId \in reasonListeners :
       ReasonsStep("mouseleave", reasonHandleMouseLeave(reasons, reasonCards, cardId))
  /\ UNCHANGED <<reasonListeners, reasonsDoc>>
  /\ ReasonsFrame

\* reasons.destroy()
ReasonsDestroy ==
  /\ reasonListeners' = {}
  /\ ReasonsStep("destroy",
                 ReasonsResult([isInitialized |-> FALSE, isRendered |-> FALSE,
                                hoveredCardId |-> NoCard, expandedCardId |-> NoCard],
                               <<>>))
  /\ UNCHANGED reasonsDoc
  /\ ReasonsFrame

InitReasons ==
  /\ GameIdle
  /\ PosIdle
  /\ ScaleIdle
  /\ CleanIdle
  /\ NavIdle
  /\ HeroIdle
  /\ HeartsIdle
  /\ SectionIdle
  /\ CopyIdle
  /\ GalleryIdle
  /\ MotionIdle
  /\ RevealIdle
  /\ ReasonsCreated
  /\ reasonsDoc \in BOOLEAN

NextReasons ==
  \/ ReasonsInit
  \/ ReasonsCardClick
  \/ ReasonsCardKeyDown
  \/ ReasonsCardEnter
  \/ ReasonsCardLeave
  \/ ReasonsDestroy

SpecReasons == InitReasons /\ [][NextReasons]_vars

\* ------------------------------------------- updateActiveSection on a page
\* the window is at scroll position y and updateActiveSection() runs
SectionUpdate ==
  /\ \E y \in ScrollStops(secLayout) :
       /\ secY' = y
       /\ LET currentSection == currentSectionOn(secLayout, y)
          IN  secActive' = IF currentSection # secActive
                           THEN currentSection
                           ELSE secActive
  /\ secOp' = "updateActiveSection"
  /\ UNCHANGED secLayout
  /\ UNCHANGED <<gameVars, posVars, scaleVars, cleaned, navVars, heroVars, heartVars, galVars, motionVars, revealVars, reasonsVars, copyVars>>

InitSection ==
  /\ GameIdle
  /\ PosIdle
  /\ ScaleIdle
  /\ CleanIdle
  /\ NavIdle
  /\ HeroIdle
  /\ HeartsIdle
  /\ GalleryIdle
  /\ MotionIdle
  /\ RevealIdle
  /\ ReasonsIdle
  /\ CopyIdle
  /\ SectionConstructed
  /\ secLayout \in Layouts

NextSection == SectionUpdate

SpecSection == InitSection /\ [][NextSection]_vars

\* ================================================================= claims
EvadeOps == {"mouseenter", "touchstart", "evadeNoButton", "game.evadeNoButton"}
CelebrateOps == {"triggerCelebration", "game.triggerCelebration"}
YesActivations == {"click", "touchend", "keydownEnter", "keydownSpace"}

DeclineAxisKept ==
  /\ state.noButtonPosition = pre.state.noButtonPosition
  /\ state.evasionCount = pre.state.evasionCount
  /\ state.noButtonScale = pre.state.noButtonScale

\* C1 (as stated): in every execution of a love-game instance, whatever the
\* operation, hasAnsweredYes never goes from true back to false.
C1_NeverReverts == pre.state.hasAnsweredYes => state.hasAnsweredYes

\* C1 (amended): hasAnsweredYes goes from true to false only in destroy(),
\* which resets the state; it goes from false to true only when
\* triggerCelebration runs, and that happens at most once between teardowns.
C1_RevertsOnlyOnDestroy ==
  /\ (pre.state.hasAnsweredYes /\ ~state.hasAnsweredYes) => op = "destroy"
  /\ (~pre.state.hasAnsweredYes /\ state.hasAnsweredYes) => called = "triggerCelebration"
  /\ renders <= 1
  /\ state.hasAnsweredYes => renders = 1

C1_Witness ==
  /\ op = "destroy"
  /\ pre.state.hasAnsweredYes
  /\ ~state.hasAnsweredYes

\* C2: triggerCelebration called on a state whose hasAnsweredYes is already
\* true renders nothing again (the celebration container keeps its content)
\* and notifies nobody a second time.
C2_NoRerender ==
  (op \in CelebrateOps /\ pre.state.hasAnsweredYes) =>
    /\ dom.celebration = pre.dom.celebration
    /\ renders = pre.renders
    /\ callbacks = pre.callbacks

\* C3: once triggerCelebration has set hasAnsweredYes it stays set, and every
\* later evade call (directly, or from mouseenter / touchstart on the No
\* button) changes none of noButtonPosition, evasionCount, noButtonScale,
\* currentMessageIndex.
C3_EvadeFrozen ==
  /\ pre.state.hasAnsweredYes => state.hasAnsweredYes
  /\ (op \in EvadeOps /\ pre.state.hasAnsweredYes) =>
       /\ DeclineAxisKept
       /\ state.currentMessageIndex = pre.state.currentMessageIndex

C3_Witness ==
  /\ op \in {"mouseenter", "touchstart"}
  /\ called = "evadeNoButton"
  /\ pre.state.hasAnsweredYes
  /\ pre.state.evasionCount > 0
  /\ \E rect \in GameRects :
       \E p \in calculateEvasionPosition(rect, pre.state.noButtonPosition) :
         p # state.noButtonPosition

\* C4: after any non-empty sequence of click, touchend, Enter and Space
\* activations of the Yes button the celebration has been rendered exactly
\* once and onCelebration has been invoked exactly once.
C4_OneShot ==
  /\ op \in YesActivations => (renders = 1 /\ callbacks = 1)
  /\ renders >= pre.renders /\ renders <= 1
  /\ callbacks >= pre.callbacks /\ callbacks <= 1

C4_Witness ==
  /\ op \in YesActivations
  /\ pre.renders = 1
  /\ pre.callbacks = 1
  /\ pre.state.hasAnsweredYes
  /\ renders = 1

\* C5: the first triggerCelebration on an unanswered state, after any number
\* of evasions, sets hasAnsweredYes and leaves noButtonPosition, evasionCount
\* and noButtonScale at their values before the call.
C5_CelebrateFrame ==
  (called = "triggerCelebration" /\ ~pre.state.hasAnsweredYes) =>
    /\ state.hasAnsweredYes
    /\ DeclineAxisKept

C5_Witness ==
  /\ called = "triggerCelebration"
  /\ ~pre.state.hasAnsweredYes
  /\ state.hasAnsweredYes
  /\ state.evasionCount >= shrinkThreshold + 2
  /\ state.noButtonScale < ScaleOne
  /\ state.noButtonPosition # Pos(0, 0)

\* C6: every evade call made while hasAnsweredYes is false, directly or from
\* mouseenter / touchstart, raises evasionCount by exactly 1 and
\* currentMessageIndex by exactly 1 (so N calls raise each by N).
C6_EvadeCounts ==
  /\ (op \in EvadeOps /\ called = "evadeNoButton" /\ ~pre.state.hasAnsweredYes) =>
       /\ state.evasionCount = pre.state.evasionCount + 1
       /\ state.currentMessageIndex = pre.state.currentMessageIndex + 1
  /\ (op \in {"mouseenter", "touchstart"} /\ op \in listeners /\ ~pre.state.hasAnsweredYes) =>
       called = "evadeNoButton"
  /\ (op = "evadeNoButton") => called = "evadeNoButton"

C6_Witness ==
  /\ op = "touchstart"
  /\ called = "evadeNoButton"
  /\ pre.state.evasionCount = NumMessages + 1
  /\ state.evasionCount = NumMessages + 2
  /\ state.currentMessageIndex = NumMessages + 2

\* C7: in every state reached from a fresh one by evade and celebrate calls,
\* noButtonScale = calculateShrinkScale(evasionCount, 5, 0.3): it is 1.0 below
\* the threshold, within [0.3, 1.0] always, 0.8 after 7 evasions and 0.3
\* after 20.
C7_ScaleFollowsCount ==
  /\ state.noButtonScale =
       calculateShrinkScale(state.evasionCount, shrinkThreshold, minButtonScale)
  /\ state.evasionCount < shrinkThreshold => state.noButtonScale = ScaleOne
  /\ minButtonScale <= state.noButtonScale /\ state.noButtonScale <= ScaleOne
  /\ state.evasionCount = 7 => state.noButtonScale = 8
  /\ state.evasionCount = 20 => state.noButtonScale = 3

C7_Witness ==
  /\ state.evasionCount = 20
  /\ state.noButtonScale = 3
  /\ pre.state.noButtonScale = 3
  /\ op \in EvadeOps


\* max(0, container - control), in pixels
ClaimMax(containerSize, controlSize) ==
  IF containerSize > controlSize THEN containerSize - controlSize ELSE 0
MaxXOf(rect) == ClaimMax(rect.cw, rect.bw)
MaxYOf(rect) == ClaimMax(rect.ch, rect.bh)
Returned == pcPos = "done"

\* C8: for every container and control size and every current position,
\* also one outside the container, calculateEvasionPosition returns (x, y)
\* with 0 <= x <= max(0, cw - bw) and 0 <= y <= max(0, ch - bh).
C8_WithinBounds ==
  attempts > 0 =>
    /\ 0 <= candidate.x /\ candidate.x <= MaxXOf(posIn.rect) * RandDen
    /\ 0 <= candidate.y /\ candidate.y <= MaxYOf(posIn.rect) * RandDen
    /\ Returned => candidate \in calculateEvasionPosition(posIn.rect, posIn.currentPosition)

C8_Witness ==
  /\ Returned
  /\ posIn.currentPosition.x < 0
  /\ posIn.currentPosition.y > posIn.rect.ch * RandDen
  /\ candidate.x > 0
  /\ candidate.y > 0

\* C9 (as stated): when max_x = 0 or max_y = 0 the function returns (0, 0).
C9_ZeroWhenEitherDegenerate ==
  (Returned /\ (MaxXOf(posIn.rect) = 0 \/ MaxYOf(posIn.rect) = 0)) =>
    candidate = Pos(0, 0)

\* C9 (amended): the function returns 0 on every axis whose max is 0, so
\* (0, 0) when max_x = 0 and max_y = 0, as for container 100x50 with control
\* 200x200; on an axis whose max is positive the coordinate is still drawn.
C9_ZeroOnDegenerateAxis ==
  Returned =>
    /\ MaxXOf(posIn.rect) = 0 => candidate.x = 0
    /\ MaxYOf(posIn.rect) = 0 => candidate.y = 0
    /\ (MaxXOf(posIn.rect) = 0 /\ MaxYOf(posIn.rect) = 0) => candidate = Pos(0, 0)

C9_Witness ==
  /\ Returned
  /\ posIn.rect = Rect(100, 50, 200, 200)
  /\ posIn.currentPosition # Pos(0, 0)
  /\ candidate = Pos(0, 0)

\* C10: calculateEvasionPosition always returns: its loop draws at most 10
\* candidates, and the 10th is returned even when it is within 50 px of the
\* current position on both axes.
C10_Terminates ==
  /\ [](attempts <= maxAttempts /\ (attempts = maxAttempts => Returned))
  /\ (pcPos = "loop") ~> Returned

C10_Witness ==
  /\ Returned
  /\ attempts = maxAttempts
  /\ Abs(candidate.x - posIn.currentPosition.x) < minSeparation * RandDen
  /\ Abs(candidate.y - posIn.currentPosition.y) < minSeparation * RandDen
  /\ MaxXOf(posIn.rect) > 0

\* C12: currentMessageIndex and evasionCount move in lockstep.  Counted from
\* a fresh state, the k-th evasion shows the one pleading message
\* pleadingMessages[(k-1) mod 16] and advances currentMessageIndex by 1, so
\* currentMessageIndex = evasionCount after every evasion; an operation that
\* does not evade shows no message.
C12_Lockstep ==
  /\ state.currentMessageIndex = state.evasionCount
  /\ (op \in EvadeOps /\ state.evasionCount = pre.state.evasionCount + 1) =>
       /\ dom.pleadingMessage = (state.evasionCount - 1) % NumMessages
       /\ state.currentMessageIndex = pre.state.currentMessageIndex + 1
  /\ state.evasionCount = pre.state.evasionCount =>
       dom.pleadingMessage = pre.dom.pleadingMessage

C12_Witness ==
  /\ op \in EvadeOps
  /\ state.evasionCount = NumMessages + 1
  /\ pre.dom.pleadingMessage = NumMessages - 1
  /\ dom.pleadingMessage = 0

\* C13: after destroy(), whatever evasions and celebration preceded it, the
\* state is noButtonPosition (0,0), hasAnsweredYes false, evasionCount 0,
\* noButtonScale 1.0, currentMessageIndex 0: the record createInitialState
\* returns.
C13_DestroyResets ==
  op = "destroy" =>
    /\ state = [ noButtonPosition |-> [x |-> 0, y |-> 0],
                 hasAnsweredYes |-> FALSE,
                 evasionCount |-> 0,
                 noButtonScale |-> 10,
                 currentMessageIndex |-> 0 ]
    /\ state = createInitialState

C13_Witness ==
  /\ op = "destroy"
  /\ pre.state.hasAnsweredYes
  /\ pre.state.evasionCount > shrinkThreshold
  /\ pre.state.noButtonScale < ScaleOne
  /\ pre.state.noButtonPosition # Pos(0, 0)
  /\ state.evasionCount = 0

\* C14: triggerCelebration called again when hasAnsweredYes is already true
\* leaves every field of the state record (noButtonPosition, hasAnsweredYes,
\* evasionCount, noButtonScale, currentMessageIndex) as it was before the
\* call.
C14_CelebrateIdempotent ==
  (op \in CelebrateOps /\ pre.state.hasAnsweredYes) =>
    /\ state.noButtonPosition = pre.state.noButtonPosition
    /\ state.hasAnsweredYes = pre.state.hasAnsweredYes
    /\ state.evasionCount = pre.state.evasionCount
    /\ state.noButtonScale = pre.state.noButtonScale
    /\ state.currentMessageIndex = pre.state.currentMessageIndex

C14_Witness ==
  /\ op = "triggerCelebration"
  /\ called = "triggerCelebration"
  /\ pre.state.hasAnsweredYes
  /\ pre.renders = 1
  /\ renders = 2
  /\ state.evasionCount > shrinkThreshold

\* C11: calculateShrinkScale(evasionCount, threshold, minScale) returns
\* exactly 1.0 for every evasionCount < threshold and
\* max(minScale, 1.0 - 0.1 * (evasionCount - threshold)) for every
\* evasionCount >= threshold (1.0 at evasionCount = threshold); the result is
\* always in [minScale, 1.0].
C11_ShrinkScale ==
  scaleOut # -1 =>
    LET n == scaleIn.evasionCount
        t == scaleIn.threshold
        m == scaleIn.minScale
        linear == 10 - (n - t)
    IN  /\ n < t => scaleOut = 10
        /\ n >= t => scaleOut = (IF m >= linear THEN m ELSE linear)
        /\ n = t => scaleOut = 10
        /\ m <= scaleOut /\ scaleOut <= 10

C11_Witness ==
  /\ scaleOut = 3
  /\ scaleIn = [evasionCount |-> 20, threshold |-> 5, minScale |-> 3]

\* C15: once the cleanup closure returned by setupNoButtonHandlers has run,
\* mouseenter and touchstart on the No button leave the game state (and the
\* page) unchanged; once the one returned by setupYesButtonHandlers has run,
\* click, touchend, Enter and Space on the Yes button do.
C15_CleanedUp ==
  /\ (op \in {"mouseenter", "touchstart"} /\ "no" \in cleaned) =>
       (state = pre.state /\ dom = pre.dom /\ called = "none")
  /\ (op \in YesActivations /\ "yes" \in cleaned) =>
       (state = pre.state /\ dom = pre.dom /\ called = "none" /\
        renders = pre.renders /\ callbacks = pre.callbacks)

C15_Witness ==
  /\ cleaned = {"no", "yes"}
  /\ op = "touchstart"
  /\ ~state.hasAnsweredYes
  /\ state.evasionCount = 3
  /\ pre.state.evasionCount = 3

NavEventOps == {"toggleClick", "linkClick", "scroll", "resize", "docClick", "docKeydown"}

\* C16: after Navigation.destroy(), an event of any kind init() subscribed
\* to (toggle click, link click, window scroll, window resize, document
\* click, document keydown) changes neither isMenuOpen nor activeSection nor
\* the navigation DOM.
C16_DestroyDetaches ==
  (navDestroyed /\ navOp \in NavEventOps) =>
    (navState = navPre.state /\ navDom = navPre.dom)

\* C17: after hero.destroy(), activating the scroll indicator, by click or by
\* Enter / Space keydown, no longer scrolls the next section into view.
C17_DestroyStopsScroll ==
  (heroDestroyed /\ heroOp \in {"click", "keydownEnter", "keydownSpace"}) =>
    heroScrolled = 0

\* C18: after cleanupFloatingHearts() no floating-heart element created by
\* createFloatingHearts remains in its container, getActiveHearts() is empty
\* and no motion-preference listener remains registered.
C18_CleanupRemovesAll ==
  heartsOp = "cleanup" =>
    /\ \A c \in Containers : hearts.inDom[c] = 0
    /\ hearts.activeHearts = 0
    /\ ~hearts.motionPreferenceCleanup.registered

\* C19: for any sequence of createFloatingHearts calls and motion-preference
\* changes, whenever reduced motion is preferred no container holds a
\* floating-heart element, and createFloatingHearts called then returns an
\* empty array.
C19_ReducedMeansNoHearts ==
  (motionReduced /\ ~heartsCleaned) =>
    /\ \A c \in Containers : hearts.inDom[c] = 0
    /\ heartsOp = "create" => heartsRet = 0

\* C20: after one createFloatingHearts(container, count) call, for any
\* initial preference and any sequence of motion-preference changes,
\* whenever the preference is not reduced the container holds exactly count
\* floating hearts.
C20_RecreatedWhenEnabled ==
  (heartsCreates = 1 /\ ~heartsCleaned /\ ~motionReduced) =>
    hearts.inDom[firstCreate.container] = firstCreate.count

\* C21: for any sequence of click, Enter and Space interactions on gallery
\* cards, a photo is revealed (its revealed flag, and once the gallery is
\* initialized its membership of revealedPhotos and its card's revealed
\* class and aria-pressed) if and only if it was initially revealed or its
\* card has been activated at least once; so a revealed photo never reverts
\* and activating one card changes no other photo.
C21_RevealedIffActivated ==
  \A id \in PhotoIds :
    LET expected == id \in galInitial \/ id \in galActivated
    IN  /\ gallery.photos[id] <=> expected
        /\ gallery.isInitialized =>
             /\ (id \in gallery.revealedPhotos) <=> expected
             /\ (id \in gallery.revealedClass) <=> expected
             /\ (id \in gallery.ariaPressed) <=> expected

C21_Witness ==
  /\ galOp = "keydownSpace"
  /\ galInitial = {"3"}
  /\ galActivated = {"1"}
  /\ gallery.revealedPhotos = {"1", "3"}
  /\ ~gallery.photos["2"]

\* C30: for every photo id, after any sequence of init, card activations,
\* revealPhoto, revealAll and destroy, isPhotoRevealed(id) is true if and
\* only if the photo with that id returned by getPhotos() has revealed true.
\* Checked from the first successful init() on.
C30_SetMatchesPhotos ==
  gallery.container =>
    \A id \in PhotoIds : (id \in gallery.revealedPhotos) <=> gallery.photos[id]

\* C22: every scrollToSection call with the id of an existing section leaves
\* activeSection equal to that id (so after any sequence of calls it is the
\* id of the most recent such call), and a call with an id that matches no
\* section performs no scroll and leaves activeSection unchanged.
C22_ScrollToSectionTracks ==
  [][ navOp' = "scrollToSection" =>
        IF SectionExists(navArg')
        THEN navState'.activeSection = navArg'
        ELSE navState'.activeSection = navState.activeSection /\ win' = win ]_vars

\* C23: on an initialized navigation, after a section change with a valid
\* section id (setActiveSection, scrollToSection, a link click, or a scroll
\* event that moves the active section) exactly one navigation link carries
\* the active class and aria-current, the one whose href targets
\* state.activeSection.
C23_OneActiveLink ==
  ( /\ navInitialized
    /\ \/ navOp = "setActiveSection"
       \/ navOp = "scrollToSection" /\ SectionExists(navArg)
       \/ navOp = "linkClick"
       \/ navOp = "scroll" /\ navState.activeSection # navPre.state.activeSection )
  => /\ Cardinality(navDom.activeLinks) = 1
     /\ navDom.activeLinks = {navState.activeSection}

C23_Witness ==
  /\ navInitialized
  /\ navOp = "setActiveSection"
  /\ navArg = "gallery"
  /\ navPre.dom.activeLinks = {"reasons"}
  /\ navDom.activeLinks = {"gallery"}

\* C28: once a burst of scroll events has ended (the throttle's timer has run
\* and no scroll event has followed), state.activeSection is the section
\* updateActiveSection computes for the scroll position the window is at.
C28_NotStaleAfterBurst ==
  (navOp = "throttleTimer" /\ "scroll" \in navListeners)
  => navState.activeSection = CurrentSection(win.scrollY, navCached)

\* C27: while the instance is not initialized (before a successful init(),
\* after an init() that failed for a missing element, or after destroy()), a
\* call of game.evadeNoButton() or game.triggerCelebration() leaves the state
\* record at its default values.
C27_ManualCallsInertUninitialized ==
  (~isInitialized /\ op \in {"game.evadeNoButton", "game.triggerCelebration"})
  => state = createInitialState

\* C24: after initMotionPreference(), for any initial preference and any
\* sequence of preference-change events (no returned cleanup function has
\* run), the document root element carries the 'reduced-motion' class if and
\* only if the most recent motion preference is reduced.
C24_ClassFollowsPreference ==
  (motionInits > 0 /\ ~motionCleaned) => (rootClass <=> prefersReducedMotion)

C24_Witness ==
  /\ motionInits > 0
  /\ ~motionCleaned
  /\ motionOp = "change"
  /\ rootClassPre
  /\ ~mqlMatches
  /\ ~rootClass

\* C25 as stated: with once = true and motion not reduced, an element passed
\* to createScrollReveal carries scroll-reveal-visible if and only if it has
\* been reported intersecting at least once since then.
C25_VisibleIffReported ==
  \A id \in DOMAIN srObservers :
    \A e \in srObservers[id].elements :
      srObservers[id].once => ((e \in srVisible) <=> (e \in srObservers[id].seen))

\* C25, amended: such an element carries the class if and only if it carried
\* it when it was passed, has been reported intersecting at least once since
\* then, or has since been passed to a createScrollReveal call under reduced
\* motion.  These three only ever come to hold, so the class is never
\* removed once added, whatever is reported later.
C25_VisibleIffReportedOrShown ==
  \A id \in DOMAIN srObservers :
    \A e \in srObservers[id].elements :
      srObservers[id].once =>
        ((e \in srVisible) <=>
           (e \in srObservers[id].given \cup srObservers[id].seen))

\* an element revealed by a report, then reported as having left the viewport
\* by a second observer, still carries the class
C25_Witness ==
  /\ srOp = "report"
  /\ \E id \in DOMAIN srObservers :
       /\ srObservers[id].once
       /\ "a" \in srObservers[id].seen
       /\ "a" \notin srObservers[id].given
       /\ "a" \in srVisible
       /\ \E j \in DOMAIN srObservers : j > id /\ "a" \in srObservers[j].observing
                                        /\ "a" \notin srObservers[j].seen

\* C26: the observers in getActiveScrollObservers() are exactly those
\* createScrollReveal has returned since the last cleanupScrollReveal(), and
\* cleanupScrollReveal() leaves every one of them disconnected and the array
\* empty.
C26_ActiveAreReturned ==
  /\ ActiveSet = srReturned
  /\ Len(activeObservers) = Cardinality(ActiveSet)
  /\ srOp = "cleanupScrollReveal" =>
       /\ activeObservers = <<>>
       /\ \A id \in DOMAIN srObservers : srObservers[id].observing = {}

C26_Witness ==
  /\ srOp = "cleanupScrollReveal"
  /\ Len(srObservers) >= 2
  /\ \A id \in DOMAIN srObservers : srObservers[id].elements # {}
  /\ activeObservers = <<>>

\* the rendered cards carrying reason-card--expanded and aria-expanded="true"
ExpandedCards == {id \in DOMAIN reasonCards : reasonCards[id].expanded}

\* C29: after any sequence of click, Enter and Space activations on reason
\* cards, at most one card carries the expanded class, and
\* state.expandedCardId is the id of that card, or null when no card is
\* expanded.
C29_OneExpandedMatchesState ==
  /\ Cardinality(ExpandedCards) <= 1
  /\ ExpandedCards = IF reasons.expandedCardId = NoCard THEN {}
                     ELSE {reasons.expandedCardId}

\* C31: destroy() followed by a successful init() yields a game that cannot
\* be told from a freshly initialized one: the state record has its default
\* values, the No button has its original label and no inline position or
\* scale, no pleading message is shown, the celebration container is hidden
\* and empty, the question and buttons are visible, and the handlers
\* attached are those of a fresh game (so each event acts as on a fresh one).
C31_ReinitIsFresh ==
  [][ (op = "destroy" /\ op' = "init" /\ isInitialized')
        => /\ state' = createInitialState
           /\ dom' = InitialDom
           /\ listeners' = NoEvents \cup YesEvents ]_vars

\* C32: getState() returns a copy: a write by the caller to any part of the
\* returned record, the x and y of its position included, never changes the
\* game's state (nor, then, what a later getState() returns).
C32_WritesStayInCopy ==
  [][ op' \in {"write position", "write field"} => state' = state ]_vars

\* C33: after updateActiveSection the active section is the first section, in
\* the order hero, reasons, gallery, game, whose extent [top, top + height)
\* contains scrollY + scrollOffset + 100, or 'hero' when none contains it;
\* except that it is the last section whenever the bottom of the viewport is
\* within 50 px of the end of the document
SectionContains(i) ==
  /\ secY + 80 + 100 >= secLayout.sections[i].top
  /\ secY + 80 + 100 < secLayout.sections[i].top + secLayout.sections[i].height

SectionAtBottom ==
  /\ secLayout.innerHeight + secY >= secLayout.scrollHeight - 50
  /\ Len(secLayout.sections) > 0

C33_ActiveSectionByPosition ==
  secOp = "updateActiveSection" =>
    LET n == Len(secLayout.sections)
    IN  /\ SectionAtBottom => secActive = secLayout.sections[n].id
        /\ ~SectionAtBottom =>
             /\ \A i \in 1..n :
                  (SectionContains(i) /\ \A j \in 1..(i - 1) : ~SectionContains(j))
                    => secActive = secLayout.sections[i].id
             /\ (\A i \in 1..n : ~SectionContains(i)) => secActive = "hero"

\* two sections contain the position and the earlier one is active
C33_Witness ==
  /\ secOp = "updateActiveSection"
  /\ ~SectionAtBottom
  /\ \E i, j \in 1..Len(secLayout.sections) :
       /\ i < j
       /\ SectionContains(i)
       /\ SectionContains(j)
       /\ \A k \in 1..(i - 1) : ~SectionContains(k)
       /\ secActive = secLayout.sections[i].id
       /\ secActive # "hero"

====
